---------------------------- MODULE Spec2Model ----------------------------
(***************************************************************************)
(* LabLens backend (src/backend/mock_backend.py): the orchestration        *)
(* pipeline of maybe_generate_with_openrouter -- model fallback chain,     *)
(* page batching, completeness retry, reconciliation, merge and synthesis. *)
(*                                                                         *)
(* Texts are sequences of glyphs.  Names, values, statuses and             *)
(* explanations are spelled one character per glyph, because the code      *)
(* strips, lower-cases and measures them.  Fixed literals that the code    *)
(* only strips and tests for emptiness (the default disclaimer, the merge  *)
(* preamble) are written as one glyph per phrase.                          *)
(***************************************************************************)
EXTENDS Integers, Sequences, FiniteSets, TLC

(* ------------------------------ texts ---------------------------------- *)

\* Body applied to a value computed once, as an assignment to a local does.
With(value, Body(_)) == CHOOSE applied \in {Body(local) : local \in {value}} : TRUE

\* str.lower() on one character.
LowerChar(c) ==
    CASE c = "A" -> "a" [] c = "B" -> "b" [] c = "H" -> "h" [] c = "K" -> "k"
      [] c = "L" -> "l" [] c = "N" -> "n" [] c = "O" -> "o" [] c = "U" -> "u"
      [] c = "W" -> "w" [] OTHER -> c

\* str.lower()
Lower(s) == With(s, LAMBDA text : [i \in 1..Len(text) |-> LowerChar(text[i])])

IsSpace(c) == c = " "

RECURSIVE LStrip(_)
LStrip(s) == IF Len(s) > 0 /\ IsSpace(s[1]) THEN LStrip(SubSeq(s, 2, Len(s))) ELSE s

RECURSIVE RStrip(_)
RStrip(s) == IF Len(s) > 0 /\ IsSpace(s[Len(s)]) THEN RStrip(SubSeq(s, 1, Len(s) - 1)) ELSE s

\* str.strip()
Strip(s) == With(s, LAMBDA text : RStrip(LStrip(text)))

\* `x or default` on a text: the empty text is falsy.
OrElse(s, default) == IF Len(s) = 0 THEN default ELSE s

(* A JSON value met where the code expects a text: a string, null, or a    *)
(* missing key.                                                            *)
JStr(s) == [t |-> "str", s |-> s]
JNull == [t |-> "null", s |-> <<>>]
JAbsent == [t |-> "absent", s |-> <<>>]

\* str(item.get(key, default)): str(None) is "None".
StrGet(v, default) ==
    IF v.t = "absent" THEN default
    ELSE IF v.t = "null" THEN <<"N", "o", "n", "e">>
    ELSE v.s

DEFAULT_DISCLAIMER == <<"DISCLAIMER: This is not medical advice. Consult a healthcare provider before use.">>

(* -------------------------- schema normalizer -------------------------- *)

\* Entries are told apart by status as well.
DedupeBiomarkerStepByStatus(kept, item) ==
    IF \E i \in 1..Len(kept) :
          <<Lower(Strip(kept[i].name)), Lower(Strip(kept[i].value)), Lower(Strip(kept[i].status))>>
              = <<Lower(Strip(item.name)), Lower(Strip(item.value)), Lower(Strip(item.status))>>
    THEN kept ELSE Append(kept, item)

\* Among equally long explanations the latest is kept.
DedupeBiomarkerStepLatestTie(kept, item) ==
    LET key == <<Lower(Strip(item.name)), Lower(Strip(item.value))>>
        hits == {i \in 1..Len(kept) :
                    <<Lower(Strip(kept[i].name)), Lower(Strip(kept[i].value))>> = key}
    IN  IF hits = {} THEN Append(kept, item)
        ELSE LET i == CHOOSE j \in hits : TRUE
                 existing == kept[i]
                 expl == IF Len(item.explanation) >= Len(existing.explanation)
                         THEN item.explanation ELSE existing.explanation
                 status == IF Lower(Strip(existing.status)) = <<"u", "n", "k", "n", "o", "w", "n">>
                              /\ Len(Strip(item.status)) > 0
                           THEN item.status ELSE existing.status
             IN  [kept EXCEPT ![i] = [existing EXCEPT !.explanation = expl, !.status = status]]

\* One pass of the loop of lines 368-385: fold item into the entries kept so far.
DedupeBiomarkerStep(kept, item) ==
    With(<<Lower(Strip(item.name)), Lower(Strip(item.value))>>, LAMBDA key :
        With({i \in 1..Len(kept) :
                 <<Lower(Strip(kept[i].name)), Lower(Strip(kept[i].value))>> = key},
             LAMBDA hits :
                 IF hits = {} THEN Append(kept, item)
                 ELSE With(CHOOSE j \in hits : TRUE, LAMBDA i :
                          LET existing == kept[i]
                              expl == IF Len(item.explanation) > Len(existing.explanation)
                                      THEN item.explanation ELSE existing.explanation
                              status ==
                                  IF Lower(Strip(existing.status))
                                         = <<"u", "n", "k", "n", "o", "w", "n">>
                                     /\ Len(Strip(item.status)) > 0
                                  THEN item.status ELSE existing.status
                          IN  [kept EXCEPT
                                   ![i] = [existing EXCEPT !.explanation = expl,
                                                           !.status = status]])))

RECURSIVE DedupeBiomarkers(_, _)
DedupeBiomarkers(kept, rest) ==
    IF Len(rest) = 0 THEN kept
    ELSE With(<<DedupeBiomarkerStep(kept, Head(rest)), Tail(rest)>>,
              LAMBDA next : DedupeBiomarkers(next[1], next[2]))

\* One pass of the loop of lines 389-399.
DedupeRecommendationStep(kept, item) ==
    LET key == <<Lower(Strip(item.name)), Lower(Strip(item.protocol))>>
    IN  IF \E i \in 1..Len(kept) :
              <<Lower(Strip(kept[i].name)), Lower(Strip(kept[i].protocol))>> = key
        THEN kept ELSE Append(kept, item)

RECURSIVE DedupeRecommendations(_, _)
DedupeRecommendations(kept, rest) ==
    IF Len(rest) = 0 THEN kept
    ELSE With(<<DedupeRecommendationStep(kept, Head(rest)), Tail(rest)>>,
              LAMBDA next : DedupeRecommendations(next[1], next[2]))

\* _dedupe_normalized_output
DedupeNormalizedOutput(normalized) ==
    With(normalized, LAMBDA out :
        [out EXCEPT !.biomarkers = DedupeBiomarkers(<<>>, out.biomarkers),
                    !.recommendations = DedupeRecommendations(<<>>, out.recommendations)])

\* Lines 336-341: one biomarker entry of the normalized output.
NormalizeBiomarker(item) ==
    [name |-> OrElse(Strip(StrGet(item.name, <<>>)), <<"U", "n", "k", "n", "o", "w", "n">>),
     value |-> OrElse(Strip(StrGet(item.value, <<>>)), <<"N", "/", "A">>),
     status |-> OrElse(Strip(StrGet(item.status, <<"U", "n", "k", "n", "o", "w", "n">>)), <<"U", "n", "k", "n", "o", "w", "n">>),
     explanation |-> OrElse(Strip(StrGet(item.explanation, <<>>)), <<"N", "o", " ", "e", "x", "p", "l", "a", "n", "a", "t", "i", "o", "n", " ", "p", "r", "o", "v", "i", "d", "e", "d", ".">>)]

\* Lines 347-351: one recommendation entry of the normalized output.
NormalizeRecommendation(item) ==
    [name |-> OrElse(Strip(StrGet(item.name, <<>>)), <<"R", "e", "c", "o", "m", "m", "e", "n", "d", "a", "t", "i", "o", "n">>),
     protocol |-> OrElse(Strip(StrGet(item.protocol, StrGet(item.protocolText, <<>>))),
                         <<"N", "o", " ", "p", "r", "o", "t", "o", "c", "o", "l", " ", "p", "r", "o", "v", "i", "d", "e", "d", ".">>),
     reason |-> OrElse(Strip(StrGet(item.reason, <<>>)), <<"N", "o", " ", "r", "e", "a", "s", "o", "n", " ", "p", "r", "o", "v", "i", "d", "e", "d", ".">>)]

\* SelectSeq keeping the dict entries, then mapping them.
MapDicts(items, F(_)) ==
    LET dicts == SelectSeq(items, LAMBDA it : it.isdict)
    IN  [i \in 1..Len(dicts) |-> F(dicts[i])]

\* Line 329: the schema test of _normalize_ai_output.
SchemaValid(raw) == raw.biomarkers_is_list /\ raw.recommendations_is_list /\ raw.summary_is_str

\* Line 357: str(disclaimer or DEFAULT).strip()
NormalizeDisclaimer(d) ==
    IF d.t # "str" \/ Len(d.s) = 0 THEN Strip(DEFAULT_DISCLAIMER) ELSE Strip(d.s)

\* _normalize_ai_output on a schema-valid raw output.
NormalizeAiOutput(raw) ==
    DedupeNormalizedOutput(
        [biomarkers |-> MapDicts(raw.biomarkers, NormalizeBiomarker),
         recommendations |-> MapDicts(raw.recommendations, NormalizeRecommendation),
         summary |-> Strip(raw.summary),
         disclaimer |-> NormalizeDisclaimer(raw.disclaimer)])

(* ------------------------------ merger --------------------------------- *)

Digit(d) == <<"0", "1", "2", "3", "4", "5", "6", "7", "8", "9">>[d + 1]

\* The decimal spelling an f-string gives a non-negative integer.
RECURSIVE Decimal(_)
Decimal(n) == IF n < 10 THEN <<Digit(n)>> ELSE Decimal(n \div 10) \o <<Digit(n % 10)>>

Key3(item) == <<Lower(Strip(item.name)), Lower(Strip(item.value)), Lower(Strip(item.status))>>

\* Lines 412-422: biomarkers of all chunks, first occurrence of a key wins.
MergeBiomarkerStep(kept, item) ==
    IF \E i \in 1..Len(kept) : Key3(kept[i]) = Key3(item) THEN kept ELSE Append(kept, item)

RECURSIVE FoldItems(_, _, _)
FoldItems(Step(_, _), kept, rest) ==
    IF Len(rest) = 0 THEN kept
    ELSE With(<<Step(kept, Head(rest)), Tail(rest)>>,
              LAMBDA next : FoldItems(Step, next[1], next[2]))

\* The chunks' sequences of one field, laid end to end from the last chunk to the first.
RECURSIVE ConcatFieldBackward(_, _)
ConcatFieldBackward(chunks, field) ==
    IF Len(chunks) = 0 THEN <<>>
    ELSE chunks[Len(chunks)][field] \o ConcatFieldBackward(SubSeq(chunks, 1, Len(chunks) - 1), field)

\* The chunks' sequences of one field, laid end to end in chunk order.
RECURSIVE ConcatField(_, _)
ConcatField(chunks, field) ==
    IF Len(chunks) = 0 THEN <<>> ELSE Head(chunks)[field] \o ConcatField(Tail(chunks), field)

\* The stripped summary of the first chunk that has a non-blank one.
LastSummaryForward(chunks) ==
    LET nonblank == SelectSeq(chunks, LAMBDA c : Len(Strip(c.summary)) > 0)
    IN  IF Len(nonblank) = 0 THEN <<>> ELSE Strip(nonblank[1].summary)

\* Line 438: the stripped summary of the last chunk that has a non-blank one.
RECURSIVE LastSummary(_)
LastSummary(chunks) ==
    IF Len(chunks) = 0 THEN <<>>
    ELSE IF Len(Strip(chunks[Len(chunks)].summary)) > 0 THEN Strip(chunks[Len(chunks)].summary)
    ELSE LastSummary(SubSeq(chunks, 1, Len(chunks) - 1))

\* Lines 441-444: the stripped disclaimer of the first chunk that has a non-blank one.
RECURSIVE FirstDisclaimer(_)
FirstDisclaimer(chunks) ==
    IF Len(chunks) = 0 THEN DEFAULT_DISCLAIMER
    ELSE IF Len(Strip(Head(chunks).disclaimer)) > 0 THEN Strip(Head(chunks).disclaimer)
    ELSE FirstDisclaimer(Tail(chunks))

\* The preamble naming one batch more.
MergePreambleNextCount(k) ==
    <<"Analyzed report pages in order across ">> \o Decimal(k + 1) \o <<" batch(es).">>

\* Line 439: the fixed preamble naming len(chunks).
MergePreamble(k) == <<"Analyzed report pages in order across ">> \o Decimal(k) \o <<" batch(es).">>

MergedSummary(chunks) ==
    MergePreamble(Len(chunks))
        \o (IF Len(LastSummary(chunks)) > 0 THEN <<" ">> \o LastSummary(chunks) ELSE <<>>)

\* _merge_normalized_outputs on a non-empty list of chunks.
MergeNormalizedOutputs(chunks) ==
    DedupeNormalizedOutput(
        [biomarkers |->
             With(ConcatField(chunks, "biomarkers"),
                  LAMBDA all : FoldItems(MergeBiomarkerStep, <<>>, all)),
         recommendations |->
             With(ConcatField(chunks, "recommendations"),
                  LAMBDA all : FoldItems(DedupeRecommendationStep, <<>>, all)),
         summary |-> MergedSummary(chunks),
         disclaimer |-> FirstDisclaimer(chunks)])

(* ------------------------ sample model outputs ------------------------ *)

Bio(n, v, s, e) == [isdict |-> TRUE, name |-> n, value |-> v, status |-> s, explanation |-> e]
NotADict == [isdict |-> FALSE, name |-> JAbsent, value |-> JAbsent, status |-> JAbsent,
             explanation |-> JAbsent]
Reco(n, p, r) == [isdict |-> TRUE, name |-> n, protocol |-> p, protocolText |-> JAbsent,
                  reason |-> r]
Raw(b, r, s, d) ==
    [biomarkers_is_list |-> TRUE, biomarkers |-> b,
     recommendations_is_list |-> TRUE, recommendations |-> r,
     summary_is_str |-> TRUE, summary |-> s, disclaimer |-> d]

BioHb == Bio(JStr(<<"H", "b">>), JStr(<<"1">>), JStr(<<"L", "o", "w">>), JStr(<<"a">>))
BioHbShout == Bio(JStr(<<" ", "H", "B">>), JStr(<<"1", " ">>), JStr(<<"U", "n", "k", "n", "o", "w", "n">>), JStr(<<"a", "b">>))
BioK == Bio(JStr(<<"K">>), JStr(<<"2">>), JStr(<<"H", "i", "g", "h">>), JAbsent)
BioNa == Bio(JStr(<<"N", "a">>), JNull, JAbsent, JStr(<<"b">>))
BioB == Bio(JStr(<<"B">>), JStr(<<"3">>), JStr(<<" ">>), JStr(<<" ", " ">>))
RecoA == Reco(JStr(<<"A">>), JStr(<<"1", " ", "a">>), JStr(<<"b">>))

\* One biomarker and an entry that is not an object.
RawOne == Raw(<<BioHb, NotADict>>, <<>>, <<" ", " ">>, JAbsent)
\* Four entries, two of which share a case-insensitive (name, value): three survive.
RawThree == Raw(<<BioHb, BioK, BioHbShout, BioNa>>, <<RecoA>>, <<"a", " ">>, JStr(<<" ", "b">>))
\* Four distinct biomarkers.
RawFour == Raw(<<BioHbShout, BioK, BioNa, BioB>>, <<RecoA, RecoA>>, <<"b">>, JNull)
\* biomarkers is not a list: fails the schema test.
RawInvalid == [Raw(<<>>, <<>>, <<>>, JAbsent) EXCEPT !.biomarkers_is_list = FALSE]

(* --------------------------- configuration ----------------------------- *)

MaxImages == 4

\* Model identifiers; "" is an unset environment variable.
IsBlank(m) == m \in {"", " "}

\* Line 265: "gemma" in lower or ("vl" not in lower and "vision" not in lower)
IsTextFirst(m) == m \in {"gemma-it", "llama"}

Filter(s, P(_)) == SelectSeq(s, P)

\* Either provider's credential serves.
ActiveProviderApiKeyOfAny(c) ==
    IF c.QWEN_API_KEY # "" THEN c.QWEN_API_KEY ELSE c.OPENROUTER_API_KEY

\* _active_provider_api_key
ActiveProviderApiKey(c) == IF c.AI_PROVIDER = "qwen" THEN c.QWEN_API_KEY ELSE c.OPENROUTER_API_KEY

\* _active_provider_model_chain
ActiveProviderModelChain(c) ==
    LET slots == IF c.AI_PROVIDER = "qwen"
                 THEN <<c.QWEN_PRIMARY_MODEL, c.QWEN_FALLBACK_MODEL,
                        c.QWEN_FALLBACK_MODEL_2, c.QWEN_FALLBACK_MODEL_3>>
                 ELSE <<c.OPENROUTER_PRIMARY_MODEL, c.OPENROUTER_FALLBACK_MODEL,
                        c.OPENROUTER_FALLBACK_MODEL_2, c.OPENROUTER_FALLBACK_MODEL_3>>
    IN  Filter(slots, LAMBDA m : ~IsBlank(m))

\* Lines 267-269: append the models not yet in text_first.
RECURSIVE AppendMissing(_, _)
AppendMissing(text_first, rest) ==
    IF Len(rest) = 0 THEN text_first
    ELSE AppendMissing(IF \E i \in 1..Len(text_first) : text_first[i] = Head(rest)
                       THEN text_first ELSE Append(text_first, Head(rest)),
                       Tail(rest))

\* _active_provider_model_chain_for_mode
ActiveProviderModelChainForMode(c) ==
    LET chain == ActiveProviderModelChain(c)
    IN  IF ~c.AI_OCR_ONLY_MODE THEN chain
        ELSE AppendMissing(Filter(chain, IsTextFirst), chain)

\* Lines 578-585: the reconciliation chain.
ReconModels(c) ==
    LET m1 == IF c.OPENROUTER_FALLBACK_MODEL # "" THEN <<c.OPENROUTER_FALLBACK_MODEL>> ELSE <<>>
        m2 == IF c.OPENROUTER_FALLBACK_MODEL_2 # ""
                 /\ ~\E i \in 1..Len(m1) : m1[i] = c.OPENROUTER_FALLBACK_MODEL_2
              THEN Append(m1, c.OPENROUTER_FALLBACK_MODEL_2) ELSE m1
    IN  IF c.OPENROUTER_PRIMARY_MODEL # ""
           /\ ~\E i \in 1..Len(m2) : m2[i] = c.OPENROUTER_PRIMARY_MODEL
        THEN Append(m2, c.OPENROUTER_PRIMARY_MODEL) ELSE m2

\* Reconciliation is skipped whenever OCR text is in use.
ReconDisabledWithOcr(c) == ~c.AI_VISUAL_ONLY_MODE \/ ~c.OPENROUTER_ENABLE_RECONCILIATION

\* Line 576: reconciliation is skipped.
ReconDisabled(c) == c.AI_VISUAL_ONLY_MODE \/ ~c.OPENROUTER_ENABLE_RECONCILIATION

\* Line 530
ProviderLabel(c) == IF c.AI_PROVIDER = "qwen" THEN "Qwen" ELSE "OpenRouter"

\* Line 532
MissingKeyName(c) == IF c.AI_PROVIDER = "qwen" THEN "QWEN_API_KEY" ELSE "OPENROUTER_API_KEY"

\* Batching only from two images above the batch size.
BatchModeLate(c, images) ==
    ~c.AI_OCR_ONLY_MODE /\ Len(images) > c.OPENROUTER_PAGE_BATCH_SIZE + 1

\* Line 681: the request is processed in batches.
BatchMode(c, images) == ~c.AI_OCR_ONLY_MODE /\ Len(images) > c.OPENROUTER_PAGE_BATCH_SIZE

\* Line 687
BatchEnd(start, size, total) == IF start + size < total THEN start + size ELSE total

\* Line 688: images[start:end]
BatchSubset(images, start, end) == SubSeq(images, start + 1, end)

\* Page labels counted from zero.
BatchPageNumbersZeroBased(start, end) == [i \in 1..(end - start) |-> start + i - 1]

\* Line 689: list(range(start + 1, end + 1))
BatchPageNumbers(start, end) == [i \in 1..(end - start) |-> start + i]

\* The floor itself counted as incomplete.
IsSuspiciouslyIncompleteInclusive(c, normalized_, image_count) ==
    image_count >= 2
        /\ Len(normalized_.biomarkers) <= c.OPENROUTER_MIN_BIOMARKERS_PER_IMAGE_HINT * image_count

\* _is_suspiciously_incomplete (a normalized output always holds a list)
IsSuspiciouslyIncomplete(c, normalized_, image_count) ==
    image_count >= 2
        /\ Len(normalized_.biomarkers) < c.OPENROUTER_MIN_BIOMARKERS_PER_IMAGE_HINT * image_count

\* Line 650: the whole-batch extraction goes to reconciliation without a retry.
SkipsRetry(c, normalized_, images) ==
    Len(images) <= 1 \/ ~IsSuspiciouslyIncomplete(c, normalized_, Len(images))

(* ----------------------------- diagnostics ----------------------------- *)
(* A diagnostic string is the sequence of its pieces.                      *)

RECURSIVE Join(_, _)
Join(parts, sep) ==
    IF Len(parts) = 0 THEN <<>>
    ELSE IF Len(parts) = 1 THEN parts[1]
    ELSE parts[1] \o <<sep>> \o Join(Tail(parts), sep)

\* str() of a list of page numbers.
PagesText(pages) == <<"[">> \o Join([i \in 1..Len(pages) |-> Decimal(pages[i])], ", ") \o <<"]">>

None == [none |-> TRUE]

(* What one remote call yields: an HTTP error, another exception (URL      *)
(* error, timeout, unparseable content), or a parsed JSON object.          *)
HttpError == [kind |-> "http", raw |-> None]
OtherError == [kind |-> "error", raw |-> None]
Json(raw) == [kind |-> "json", raw |-> raw]

\* The answers explored for the calls of each pass.
Outcomes(pass) ==
    CASE pass = "extraction" ->
            {HttpError, OtherError, Json(RawInvalid), Json(RawOne), Json(RawThree), Json(RawFour)}
      [] pass = "retry" -> {HttpError, Json(RawOne), Json(RawThree)}
      [] pass = "reconciliation" -> {OtherError, Json(RawFour)}
      [] OTHER -> {HttpError, Json(RawThree)}

\* The call returns and _normalize_ai_output accepts its output.
Succeeds(o) == o.kind = "json" /\ SchemaValid(o.raw)

\* Lines 565-567: the text of one failure.
ErrorText(o) ==
    CASE o.kind = "http" -> "HTTP 500 body"
      [] o.kind = "error" -> "timed out"
      [] OTHER -> "LLM output missing required fields"

\* Lines 565, 567: errors_local.append(f"{model}: ...")
ErrorEntry(model, o) == <<model, ": ", ErrorText(o)>>

\* Line 568: " | ".join(errors_local)
JoinErrors(errors) == Join(errors, " | ")

\* Line 559: the trace of a successful chain run is the model identifier.
SuccessTrace(model, errors) == <<model>>

(* ------------------------------- state --------------------------------- *)

VARIABLES
    cfg,            \* the module-level configuration read from the environment
    payload,        \* the request: images in page order, full OCR text
    pc,             \* position of maybe_generate_with_openrouter
    start,          \* loop variable of the batch loop (line 686)
    images_subset,  \* run_with_completeness_retry: images of the batch
    page_numbers,   \* run_with_completeness_retry: their page labels
    total_pages,    \* run_with_completeness_retry: page count of the request
    normalized,     \* result of the whole-batch extraction chain
    model_or_error, \* its trace
    retry_chunks,   \* results of the single-image runs so far
    retry_models,   \* their traces
    extracted,      \* the extraction handed to reconciliation
    meta,           \* diagnostic of the batch so far
    reconciled,     \* result of run_with_completeness_retry
    chunk_results,  \* results of the finished batches
    model_hits,     \* their diagnostics (line 705's model_or_error when not batching)
    merged,         \* the result handed to the synthesis pass
    pos,            \* index in the chain of the model to call next
    errors_local,   \* failures of the chain run in progress
    result,         \* first component returned by maybe_generate_with_openrouter
    diag,           \* second component
    runs,           \* history: every chain run begun, with the number of its calls
    attempts,       \* history: outcome of each call of the latest chain run
    returned,       \* history: what the latest finished chain run returned
    service,        \* the server's other request thread and the answers to give
    call            \* a call of the normalizer or the merger made outside a request

request_vars == <<cfg, payload, call, service>>
batch_vars == <<start, images_subset, page_numbers, total_pages>>
retry_vars == <<normalized, model_or_error, retry_chunks, retry_models>>
recon_vars == <<extracted, meta>>
acc_vars == <<chunk_results, model_hits>>
chain_vars == <<pos, errors_local>>
out_vars == <<result, diag>>
hist_vars == <<runs, attempts, returned>>
vars == <<cfg, payload, pc, start, images_subset, page_numbers, total_pages, normalized,
          model_or_error, retry_chunks, retry_models, extracted, meta, reconciled,
          chunk_results, model_hits, merged, pos, errors_local, result, diag, runs,
          attempts, returned, call, service>>

DefaultConfig ==
    [AI_PROVIDER |-> "openrouter",
     OPENROUTER_API_KEY |-> "sk-or", QWEN_API_KEY |-> "",
     OPENROUTER_PRIMARY_MODEL |-> "nemotron-vl", OPENROUTER_FALLBACK_MODEL |-> "qwen3-vl",
     OPENROUTER_FALLBACK_MODEL_2 |-> "", OPENROUTER_FALLBACK_MODEL_3 |-> "gemma-it",
     QWEN_PRIMARY_MODEL |-> "qwen-vl-max", QWEN_FALLBACK_MODEL |-> "qwen-vl-plus",
     QWEN_FALLBACK_MODEL_2 |-> "", QWEN_FALLBACK_MODEL_3 |-> "",
     OPENROUTER_PAGE_BATCH_SIZE |-> 2, OPENROUTER_MIN_BIOMARKERS_PER_IMAGE_HINT |-> 2,
     OPENROUTER_ENABLE_RECONCILIATION |-> TRUE,
     AI_OCR_ONLY_MODE |-> FALSE, AI_VISUAL_ONLY_MODE |-> FALSE]

\* The same settings with the fallback set to the primary model.
DuplicateConfig ==
    [DefaultConfig EXCEPT !.OPENROUTER_FALLBACK_MODEL = "nemotron-vl",
                          !.OPENROUTER_FALLBACK_MODEL_3 = ""]

\* A single model configured.
SoloConfig ==
    [DefaultConfig EXCEPT !.OPENROUTER_FALLBACK_MODEL = "", !.OPENROUTER_FALLBACK_MODEL_3 = ""]

QwenConfig == [DefaultConfig EXCEPT !.AI_PROVIDER = "qwen", !.QWEN_API_KEY = "sk-qw"]

WithFlags(c, size, hint, recon, ocr_only, visual_only) ==
    [c EXCEPT !.OPENROUTER_PAGE_BATCH_SIZE = size,
              !.OPENROUTER_MIN_BIOMARKERS_PER_IMAGE_HINT = hint,
              !.OPENROUTER_ENABLE_RECONCILIATION = recon,
              !.AI_OCR_ONLY_MODE = ocr_only,
              !.AI_VISUAL_ONLY_MODE = visual_only]

\* A request of n images, with full OCR text, per-page OCR texts and stitched page groups.
PagedRequest(n, text, by_page, groups) ==
    [images |-> [i \in 1..n |-> 100 + i], reportText |-> text, reportTextByPage |-> by_page,
     stitchedPageGroups |-> groups]

\* A request of n images, with full OCR text and no per-page OCR text.
Request(n, text) == PagedRequest(n, text, <<>>, <<>>)

OcrSample == <<"ocr text">>

\* One-page requests against the three- and two-model chains, in every mode.
ChainScenarios ==
    {<<WithFlags(c, 2, 2, recon, ocr_only, visual_only), Request(1, text)>> :
        c \in {DefaultConfig, DuplicateConfig, QwenConfig}, recon \in BOOLEAN,
        ocr_only \in BOOLEAN, visual_only \in BOOLEAN, text \in {<<>>, OcrSample}}

\* Requests without a credential for the active provider.
KeylessScenarios ==
    {<<c, Request(n, OcrSample)>> :
        c \in {[DefaultConfig EXCEPT !.OPENROUTER_API_KEY = ""],
                [DefaultConfig EXCEPT !.AI_PROVIDER = "qwen"]},
        n \in 1..MaxImages}

\* Requests of up to MaxImages pages against a single model, in every batch setting.
BatchScenarios ==
    {<<WithFlags(SoloConfig, size, hint, recon, mode[1], mode[2]), Request(n, OcrSample)>> :
        size \in {1, 2}, hint \in {1, 2}, recon \in BOOLEAN,
        mode \in {<<FALSE, FALSE>>, <<TRUE, FALSE>>, <<FALSE, TRUE>>}, n \in 1..MaxImages}

\* The OCR text of page k as the client recognised it, padded.
PageText(k) == <<" ", "text of page ">> \o Decimal(k)

\* Per-page OCR texts of pages 1..n, last page first, with an entry of page 0 and a blank one.
PagesByPage(n) ==
    <<[page |-> 0, text |-> PageText(0)]>>
        \o [i \in 1..n |-> [page |-> n + 1 - i, text |-> PageText(n + 1 - i)]]
        \o <<[page |-> n + 1, text |-> <<" ">>]>>

\* Image i is stitched from raw pages i and i + 1.
OverlappingGroups(n) == [i \in 1..n |-> <<i + 1, i, i>>]

\* Requests with per-page OCR text: of every page and one more and no stitched groups; of
\* every raw page of overlapping stitched groups; of the first page only; and stitched groups
\* without per-page text.
PagedRequests(n) ==
    {PagedRequest(n, OcrSample, PagesByPage(n + 1), <<>>),
     PagedRequest(n, OcrSample, PagesByPage(n + 1), OverlappingGroups(n)),
     PagedRequest(n, OcrSample, PagesByPage(1), <<<<1>>>>),
     PagedRequest(n, OcrSample, <<>>, OverlappingGroups(n))}

\* Requests with per-page OCR text or stitched groups against a single model, in batches of
\* two and in OCR-only mode.
PageScenarios ==
    {<<WithFlags(SoloConfig, 2, 2, TRUE, ocr_only, FALSE), p>> :
        ocr_only \in BOOLEAN, p \in UNION {PagedRequests(n) : n \in 1..MaxImages}}

Scenarios == ChainScenarios \cup KeylessScenarios \cup BatchScenarios \cup PageScenarios

\* The server runs one request thread and gives no recorded answers.
NotServing == [parked |-> None, alone |-> FALSE, expect |-> None, script |-> <<>>]

Init ==
    /\ \E s \in Scenarios : cfg = s[1] /\ payload = s[2]
    /\ pc = "start"
    /\ start = 0
    /\ images_subset = <<>>
    /\ page_numbers = <<>>
    /\ total_pages = 0
    /\ normalized = None
    /\ model_or_error = <<>>
    /\ retry_chunks = <<>>
    /\ retry_models = <<>>
    /\ extracted = None
    /\ meta = <<>>
    /\ reconciled = None
    /\ chunk_results = <<>>
    /\ model_hits = <<>>
    /\ merged = None
    /\ pos = 1
    /\ errors_local = <<>>
    /\ result = None
    /\ diag = <<>>
    /\ runs = <<>>
    /\ attempts = <<>>
    /\ returned = [result |-> None, trace |-> <<>>]
    /\ call = None
    /\ service = NotServing

(* --------------------------- what a call carries ----------------------- *)

\* Lines 41-46
ExtractReportText(p) == Strip(p.reportText)

\* Line 535
ReportText(c, p) == IF c.AI_VISUAL_ONLY_MODE THEN <<>> ELSE ExtractReportText(p)

\* The members of a set of numbers in ascending order: each stands after those below it.
SortedSeq(S) ==
    [r \in 1..Cardinality(S) |-> CHOOSE x \in S : Cardinality({y \in S : y < x}) = r - 1]
        \o <<>>

\* Line 67: the items by page, those of one page in the order in which they were given.
SortByPage(items) ==
    With(items, LAMBDA pages :
        LET before(i) == {j \in 1..Len(pages) :
                             \/ pages[j].page < pages[i].page
                             \/ (pages[j].page = pages[i].page /\ j < i)}
        IN  [r \in 1..Len(pages) |->
                pages[CHOOSE i \in 1..Len(pages) : Cardinality(before(i)) = r - 1]] \o <<>>)

\* Lines 49-69: the entries with a positive page and a non-blank text, stripped, by page.
ExtractReportTextByPage(p) ==
    LET stripped == [i \in 1..Len(p.reportTextByPage) |->
                        [page |-> p.reportTextByPage[i].page,
                         text |-> Strip(p.reportTextByPage[i].text)]]
    IN  SortByPage(SelectSeq(stripped, LAMBDA item : item.page > 0 /\ Len(item.text) > 0))

\* Lines 72-93: each group as its positive page numbers, ascending and without repeats;
\* empty groups are dropped.
ExtractStitchedPageGroups(p) ==
    LET ints(group) == {v \in {group[j] : j \in 1..Len(group)} : v > 0}
        cleaned == [i \in 1..Len(p.stitchedPageGroups) |->
                       SortedSeq(ints(p.stitchedPageGroups[i]))]
    IN  SelectSeq(cleaned, LAMBDA group : group # <<>>)

\* Lines 465-474
RawPagesCoveredByImageIndices(p, image_indices_1based) ==
    LET groups == ExtractStitchedPageGroups(p)
        indices == {image_indices_1based[i] : i \in 1..Len(image_indices_1based)}
        covered == IF groups # <<>>
                   THEN UNION {{groups[k][j] : j \in 1..Len(groups[k])} :
                                  k \in indices \cap (1..Len(groups))}
                   ELSE indices
    IN  SortedSeq({v \in covered : v > 0})

\* "[Page n]\ntext"
PagePart(item) == <<"[Page ">> \o Decimal(item.page) \o <<"]\n">> \o item.text


\* Lines 480-481: the parts of the pages of by_page that are among the target pages.
PartsOfPages(by_page, target_pages) ==
    With(SelectSeq(by_page, LAMBDA item : item.page \in target_pages), LAMBDA hits :
        [i \in 1..Len(hits) |-> PagePart(hits[i])] \o <<>>)

\* The per-page texts of every page supplied, whatever the images cover.
ReportTextSubsetOfEveryPage(p, image_indices_1based) ==
    With(PartsOfPages(ExtractReportTextByPage(p), Nat), LAMBDA parts :
        IF parts # <<>> THEN Join(parts, "\n\n") ELSE ExtractReportText(p))

\* Lines 477-484
ReportTextSubsetForImages(p, image_indices_1based) ==
    With(RawPagesCoveredByImageIndices(p, image_indices_1based), LAMBDA target :
        With(PartsOfPages(ExtractReportTextByPage(p), {target[i] : i \in 1..Len(target)}),
             LAMBDA parts :
                 IF parts # <<>> THEN Join(parts, "\n\n") ELSE ExtractReportText(p)))

\* Lines 124-168: what of the extraction prompt depends on the call.
OpenrouterPrompt(c, report_text, pages, total) ==
    [kind |-> "extraction", pages |-> pages, total |-> total,
     ocr |-> IF report_text # <<>> /\ ~c.AI_VISUAL_ONLY_MODE THEN report_text
             ELSE <<"[OCR disabled or unavailable]">>,
     json |-> None]

\* Lines 487-504
ReconciliationPrompt(extracted_json, report_text, pages, total) ==
    [kind |-> "reconciliation", pages |-> pages, total |-> total, ocr |-> report_text,
     json |-> extracted_json]

\* Lines 507-525
RecommendationSynthesisPrompt(extracted_json, report_text) ==
    [kind |-> "synthesis", pages |-> <<>>, total |-> 0,
     ocr |-> IF report_text # <<>> THEN report_text ELSE <<"[OCR unavailable]">>,
     json |-> extracted_json]

TextSegment(text) == [type |-> "text", text |-> text]
ImageSegment(encoded) == [type |-> "image_url", url |-> <<"data:image/jpeg;base64,", encoded>>]

\* Lines 191-203: the label of the image at idx (counted from 0) of the images given.
ImageLabel(stitched_groups, pages, total, idx) ==
    [kind |-> "label", group |-> pages[idx + 1], total |-> total,
     covers |-> IF idx < Len(stitched_groups) THEN stitched_groups[idx + 1] ELSE <<>>]

\* The segments of the images of indices idx and up.
RECURSIVE ImageSegments(_, _, _, _, _)
ImageSegments(stitched_groups, images, pages, total, idx) ==
    IF idx >= Len(images) THEN <<>>
    ELSE (IF idx < Len(pages)
          THEN <<TextSegment(ImageLabel(stitched_groups, pages, total, idx))>> ELSE <<>>)
             \o <<ImageSegment(images[idx + 1])>>
             \o ImageSegments(stitched_groups, images, pages, total, idx + 1)

\* The images are attached in OCR-only mode as in any other.
UserContentWithImagesAlways(c, p, report_text, images_override, pages, total) ==
    <<TextSegment(OpenrouterPrompt(c, report_text, pages, total))>>
        \o ImageSegments(ExtractStitchedPageGroups(p), images_override, pages, total, 0)

\* Lines 171-209, called with the images given (images_override is never None in a request).
UserContent(c, p, report_text, images_override, pages, total) ==
    <<TextSegment(OpenrouterPrompt(c, report_text, pages, total))>>
        \o (IF c.AI_OCR_ONLY_MODE THEN <<>>
            ELSE ImageSegments(ExtractStitchedPageGroups(p), images_override, pages, total, 0))

\* Line 292: a prompt of its own replaces every text segment.
WithPromptOverride(prompt, user_content) ==
    <<TextSegment(prompt)>> \o SelectSeq(user_content, LAMBDA seg : seg.type = "image_url")

\* Lines 546 and 587
ReportTextSubset(c, p, pages) ==
    IF c.AI_VISUAL_ONLY_MODE THEN <<>> ELSE ReportTextSubsetForImages(p, pages)

\* Lines 550-557, 592-600 and 621-629: the user content of the calls of a chain run.
CallContent(c, p, run, extracted_json) ==
    With(ReportTextSubset(c, p, run.page_numbers), LAMBDA subset :
        CASE run.pass \in {"extraction", "retry"} ->
                UserContent(c, p, IF subset # <<>> THEN subset ELSE ReportText(c, p),
                            run.images, run.page_numbers, run.total_pages)
          [] run.pass = "reconciliation" ->
                WithPromptOverride(
                    ReconciliationPrompt(extracted_json, subset, run.page_numbers, run.total_pages),
                    UserContent(c, p, subset, run.images, run.page_numbers, run.total_pages))
          [] OTHER ->
                WithPromptOverride(
                    RecommendationSynthesisPrompt(extracted_json, ReportText(c, p)),
                    UserContent(c, p, ReportText(c, p), <<>>, <<>>, 0)))

\* Line 542: OCR-only mode with neither full nor per-page OCR text.
OcrMissing(c, p) ==
    c.AI_OCR_ONLY_MODE /\ Len(Strip(ReportText(c, p))) = 0
        /\ Len(ExtractReportTextByPage(p)) = 0

(* ------------------------------ chain runs ----------------------------- *)

\* The model chain of the pass.
ChainOf(pass) == IF pass = "reconciliation" THEN ReconModels(cfg)
                 ELSE ActiveProviderModelChainForMode(cfg)

\* A chain run begins: its loop starts at the first model with no failure recorded.
BeginRun(pass, imgs, pages, total) ==
    /\ runs' = Append(runs, [pass |-> pass, images |-> imgs, page_numbers |-> pages,
                             total_pages |-> total, chain |-> ChainOf(pass), calls |-> 0,
                             answers |-> <<>>,
                             open |-> TRUE, ok |-> FALSE])
    /\ attempts' = <<>>
    /\ pos' = 1
    /\ errors_local' = <<>>

CurrentRun == runs[Len(runs)]

\* Lines 311-313: what the provider may answer to the call about to be made. While a
\* recorded sequence of answers is given again, it is the recorded answer of this call.
Answers ==
    IF ~service.alone THEN Outcomes(CurrentRun.pass)
    ELSE IF Len(runs) <= Len(service.script)
            /\ CurrentRun.calls < Len(service.script[Len(runs)])
         THEN {service.script[Len(runs)][CurrentRun.calls + 1]}
         ELSE {}
CurrentChain == CurrentRun.chain

\* The chain walked from its last model to its first.
ModelAtReversed(chain, p) == chain[Len(chain) + 1 - p]

\* Line 548 (590, 619): the loop visits the chain front to back.
ModelAt(chain, p) == chain[p]

\* The model the loop is about to call.
CurrentModel == ModelAt(CurrentChain, pos)

\* One call of _call_openrouter_model is issued and answered with outcome o. A thread of
\* the server keeps the answers it was given.
NoteCall(o, finished) ==
    /\ runs' = [runs EXCEPT ![Len(runs)].calls = @ + 1, ![Len(runs)].open = ~finished,
                            ![Len(runs)].ok = finished,
                            ![Len(runs)].answers = IF service.parked = None THEN @
                                                   ELSE Append(@, o)]
    /\ attempts' = Append(attempts,
                           [model |-> CurrentModel, outcome |-> o,
                            content |-> CallContent(cfg, payload, CurrentRun,
                                                    IF CurrentRun.pass = "reconciliation"
                                                    THEN extracted ELSE merged)])

\* The loop is over without a call: the chain is exhausted.
NoteExhausted == runs' = [runs EXCEPT ![Len(runs)].open = FALSE] /\ UNCHANGED attempts

\* The failure of the model at pos is recorded and the same model is called again.
FailOverRetrying(o) ==
    /\ errors_local' = Append(errors_local, ErrorEntry(CurrentModel, o))
    /\ pos' = pos
    /\ NoteCall(o, FALSE)
    /\ UNCHANGED returned

\* The failure of the model at pos is recorded and the loop moves on.
FailOver(o) ==
    /\ errors_local' = Append(errors_local, ErrorEntry(CurrentModel, o))
    /\ pos' = pos + 1
    /\ NoteCall(o, FALSE)
    /\ UNCHANGED returned

(* ------------------------- the orchestrator ---------------------------- *)


\* maybe_generate_with_openrouter returns.
Return(res, message) == pc' = "done" /\ result' = res /\ diag' = message

\* Lines 531-533: no credential for the active provider.
RejectMissingKey ==
    /\ pc = "start"
    /\ ActiveProviderApiKey(cfg) = ""
    /\ Return(None, <<ProviderLabel(cfg), " disabled (missing ", MissingKeyName(cfg), ")">>)
    /\ UNCHANGED <<request_vars, batch_vars, retry_vars, recon_vars, reconciled, acc_vars,
                   merged, chain_vars, hist_vars>>

\* Lines 542-543: OCR-only mode without OCR text.
RejectMissingOcr ==
    /\ pc = "start"
    /\ ActiveProviderApiKey(cfg) # ""
    /\ OcrMissing(cfg, payload)
    /\ Return(None, <<ProviderLabel(cfg), " OCR-only mode enabled but no OCR text was provided">>)
    /\ UNCHANGED <<request_vars, batch_vars, retry_vars, recon_vars, reconciled, acc_vars,
                   merged, chain_vars, hist_vars>>

Accepted == ActiveProviderApiKey(cfg) # "" /\ ~OcrMissing(cfg, payload)

\* Lines 681-685: the request is split into batches.
BeginBatches ==
    /\ pc = "start" /\ Accepted
    /\ BatchMode(cfg, payload.images)
    /\ pc' = "batch"
    /\ start' = 0
    /\ total_pages' = Len(payload.images)
    /\ chunk_results' = <<>> /\ model_hits' = <<>>
    /\ UNCHANGED <<request_vars, images_subset, page_numbers, retry_vars, recon_vars,
                   reconciled, merged, chain_vars, out_vars, hist_vars>>

\* Line 705: the request is processed as one batch holding every image.
BeginWhole ==
    /\ pc = "start" /\ Accepted
    /\ ~BatchMode(cfg, payload.images)
    /\ pc' = "extract"
    /\ images_subset' = payload.images
    /\ page_numbers' = [i \in 1..Len(payload.images) |-> i]
    /\ total_pages' = Len(payload.images)
    /\ BeginRun("extraction", images_subset', page_numbers', total_pages')
    /\ UNCHANGED <<request_vars, start, retry_vars, recon_vars, reconciled, acc_vars, merged,
                   out_vars, returned>>

\* Lines 686-691: the next batch enters run_with_completeness_retry.
NextBatch ==
    /\ pc = "batch"
    /\ start < total_pages
    /\ LET end == BatchEnd(start, cfg.OPENROUTER_PAGE_BATCH_SIZE, total_pages)
       IN  /\ images_subset' = BatchSubset(payload.images, start, end)
           /\ page_numbers' = BatchPageNumbers(start, end)
    /\ pc' = "extract"
    /\ BeginRun("extraction", images_subset', page_numbers', total_pages)
    /\ UNCHANGED <<request_vars, start, total_pages, retry_vars, recon_vars, reconciled,
                   acc_vars, merged, out_vars, returned>>

\* Lines 697-698: every batch succeeded; the merge enters the synthesis pass.
MergeBatches ==
    /\ pc = "batch"
    /\ start >= total_pages
    /\ merged' = MergeNormalizedOutputs(chunk_results)
    /\ pc' = "synth"
    /\ BeginRun("synthesis", <<>>, <<>>, 0)
    /\ UNCHANGED <<request_vars, batch_vars, retry_vars, recon_vars, reconciled, acc_vars,
                   out_vars, returned>>

\* Lines 648-649, 692-694, 712-714: the diagnostic of a request whose extraction failed.
FailureMessage(c, images, pages, trace) ==
    IF BatchMode(c, images)
    THEN <<ProviderLabel(c), " batch mode failed. ", "pages ">> \o PagesText(pages) \o <<": ">>
             \o trace
    ELSE <<ProviderLabel(c), " failed. ">> \o trace

\* Lines 548-567 for the whole batch: one model of the extraction chain is called.
ExtractCall ==
    /\ pc = "extract"
    /\ pos <= Len(CurrentChain)
    /\ \E o \in Answers :
         IF Succeeds(o)
         THEN /\ normalized' = NormalizeAiOutput(o.raw)
              /\ model_or_error' = SuccessTrace(CurrentModel, errors_local)
              /\ returned' = [result |-> normalized', trace |-> model_or_error']
              /\ NoteCall(o, TRUE)
              /\ IF SkipsRetry(cfg, normalized', images_subset)
                 THEN pc' = "recon" /\ extracted' = normalized' /\ meta' = model_or_error'
                 ELSE pc' = "retry" /\ UNCHANGED <<extracted, meta>>
              /\ retry_chunks' = <<>> /\ retry_models' = <<>>
              /\ UNCHANGED chain_vars
         ELSE /\ FailOver(o)
              /\ UNCHANGED <<pc, retry_vars, recon_vars>>
    /\ UNCHANGED <<request_vars, batch_vars, reconciled, acc_vars, merged, out_vars>>

\* The merge of the batches that had succeeded is returned.
FailureResultPartial(chunks) ==
    IF Len(chunks) > 0 THEN MergeNormalizedOutputs(chunks) ELSE None

\* Lines 694 and 714: a request whose extraction failed returns no result, whatever the
\* earlier batches produced.
FailureResult(chunks) == None

\* Line 568, then 648-649 and 692-694 or 712-714: the chain is exhausted, the request fails.
ExtractExhausted ==
    /\ pc = "extract"
    /\ pos > Len(CurrentChain)
    /\ returned' = [result |-> None, trace |-> JoinErrors(errors_local)]
    /\ NoteExhausted
    /\ Return(FailureResult(chunk_results),
              FailureMessage(cfg, payload.images, page_numbers, JoinErrors(errors_local)))
    /\ UNCHANGED <<request_vars, batch_vars, retry_vars, recon_vars, reconciled, acc_vars,
                   merged, chain_vars>>

\* The image labelled by its position in the batch.
SinglePageRelative(pages, i) == <<i>>

\* Line 663: single_page = [page_numbers[i]], with i counted from 1 here.
SinglePage(pages, i) == <<pages[i]>>

\* Lines 662-664: the next image of the batch is extracted alone.
RetryNext ==
    /\ pc = "retry"
    /\ Len(retry_chunks) < Len(images_subset)
    /\ LET i == Len(retry_chunks) + 1
       IN  BeginRun("retry", <<images_subset[i]>>, SinglePage(page_numbers, i), total_pages)
    /\ pc' = "single"
    /\ UNCHANGED <<request_vars, batch_vars, retry_vars, recon_vars, reconciled, acc_vars,
                   merged, out_vars, returned>>

\* Line 676
RetryMeta(trace, models) ==
    trace \o <<" (completeness-retry via ">> \o Join(models, " -> ") \o <<")">>

\* Lines 674-676: every single-image run succeeded; their merge replaces the extraction.
RetryMerge ==
    /\ pc = "retry"
    /\ Len(retry_chunks) >= Len(images_subset)
    /\ extracted' = MergeNormalizedOutputs(retry_chunks)
    /\ meta' = RetryMeta(model_or_error, retry_models)
    /\ pc' = "recon"
    /\ UNCHANGED <<request_vars, batch_vars, retry_vars, reconciled, acc_vars, merged,
                   chain_vars, out_vars, hist_vars>>

\* Lines 548-567 for one image of a completeness retry.
SingleCall ==
    /\ pc = "single"
    /\ pos <= Len(CurrentChain)
    /\ \E o \in Answers :
         IF Succeeds(o)
         THEN /\ retry_chunks' = Append(retry_chunks, NormalizeAiOutput(o.raw))
              /\ retry_models' = Append(retry_models, SuccessTrace(CurrentModel, errors_local))
              /\ returned' = [result |-> NormalizeAiOutput(o.raw),
                              trace |-> SuccessTrace(CurrentModel, errors_local)]
              /\ NoteCall(o, TRUE)
              /\ pc' = "retry"
              /\ UNCHANGED chain_vars
         ELSE /\ FailOver(o)
              /\ UNCHANGED <<pc, retry_chunks, retry_models>>
    /\ UNCHANGED <<request_vars, batch_vars, normalized, model_or_error, recon_vars,
                   reconciled, acc_vars, merged, out_vars>>

\* The single-image results obtained before the failure are kept.
RetryFallbackPartial(normalized_, chunks) ==
    IF Len(chunks) > 0 THEN MergeNormalizedOutputs(chunks) ELSE normalized_

\* Line 667: the extraction reconciled after a failed single-image run.
RetryFallback(normalized_, chunks) == normalized_

\* Lines 665-670: a single-image run failed entirely; the whole-batch extraction is kept.
SingleExhausted ==
    /\ pc = "single"
    /\ pos > Len(CurrentChain)
    /\ returned' = [result |-> None, trace |-> JoinErrors(errors_local)]
    /\ NoteExhausted
    /\ extracted' = RetryFallback(normalized, retry_chunks)
    /\ meta' = model_or_error
    /\ pc' = "recon"
    /\ UNCHANGED <<request_vars, batch_vars, retry_vars, reconciled, acc_vars, merged,
                   chain_vars, out_vars>>

\* The reconciliation trace is dropped.
WithReconMetaDropped(meta_, recon_meta) == meta_

\* Lines 652-654, 668-670, 677-679: the reconciliation trace joins the batch diagnostic.
WithReconMeta(meta_, recon_meta) ==
    IF Len(recon_meta) > 0 THEN meta_ \o <<" | reconciliation:">> \o recon_meta ELSE meta_

\* Lines 576-577: reconciliation is switched off; the extraction is the batch result.
ReconSkip ==
    /\ pc = "recon"
    /\ ReconDisabled(cfg)
    /\ reconciled' = extracted
    /\ pc' = "batch_done"
    /\ UNCHANGED <<request_vars, batch_vars, retry_vars, recon_vars, acc_vars, merged,
                   chain_vars, out_vars, hist_vars>>

\* Lines 578-589: the reconciliation chain is built and its loop begins.
ReconBegin ==
    /\ pc = "recon"
    /\ ~ReconDisabled(cfg)
    /\ BeginRun("reconciliation", images_subset, page_numbers, total_pages)
    /\ pc' = "recon_loop"
    /\ UNCHANGED <<request_vars, batch_vars, retry_vars, recon_vars, reconciled, acc_vars,
                   merged, out_vars, returned>>

\* The reconciliation output merged with the extraction it was given.
ReconResultMergedBack(extracted_, normalized_) ==
    MergeNormalizedOutputs(<<extracted_, normalized_>>)

\* Line 602: a successful reconciliation returns the normalized output of its model alone.
ReconResult(extracted_, normalized_) == normalized_

\* Lines 590-610: one model of the reconciliation chain is called.
ReconCall ==
    /\ pc = "recon_loop"
    /\ pos <= Len(CurrentChain)
    /\ \E o \in Answers :
         IF Succeeds(o)
         THEN /\ reconciled' = ReconResult(extracted, NormalizeAiOutput(o.raw))
              /\ meta' = WithReconMeta(meta, SuccessTrace(CurrentModel, errors_local))
              /\ returned' = [result |-> reconciled',
                              trace |-> SuccessTrace(CurrentModel, errors_local)]
              /\ NoteCall(o, TRUE)
              /\ pc' = "batch_done"
              /\ UNCHANGED chain_vars
         ELSE /\ FailOver(o)
              /\ UNCHANGED <<pc, reconciled, meta>>
    /\ UNCHANGED <<request_vars, batch_vars, retry_vars, extracted, acc_vars, merged, out_vars>>

\* Line 611: every reconciliation model failed; the extraction is kept.
ReconExhausted ==
    /\ pc = "recon_loop"
    /\ pos > Len(CurrentChain)
    /\ reconciled' = extracted
    /\ meta' = WithReconMeta(meta, JoinErrors(errors_local))
    /\ returned' = [result |-> extracted, trace |-> JoinErrors(errors_local)]
    /\ NoteExhausted
    /\ pc' = "batch_done"
    /\ UNCHANGED <<request_vars, batch_vars, retry_vars, extracted, acc_vars, merged,
                   chain_vars, out_vars>>

\* run_with_completeness_retry has returned: its arguments and locals are gone.
LeaveBatch ==
    /\ images_subset' = <<>> /\ page_numbers' = <<>>
    /\ normalized' = None /\ model_or_error' = <<>>
    /\ retry_chunks' = <<>> /\ retry_models' = <<>>
    /\ extracted' = None /\ meta' = <<>> /\ reconciled' = None

\* Lines 695-696: the batch result joins the results; the loop moves to the next batch.
FinishBatch ==
    /\ pc = "batch_done"
    /\ BatchMode(cfg, payload.images)
    /\ chunk_results' = Append(chunk_results, reconciled)
    /\ model_hits' = Append(model_hits, meta)
    /\ start' = start + cfg.OPENROUTER_PAGE_BATCH_SIZE
    /\ pc' = "batch"
    /\ LeaveBatch
    /\ UNCHANGED <<request_vars, total_pages, merged, chain_vars, out_vars, hist_vars>>

\* Lines 706-707: the single batch succeeded and enters the synthesis pass.
FinishWhole ==
    /\ pc = "batch_done"
    /\ ~BatchMode(cfg, payload.images)
    /\ merged' = reconciled
    /\ model_hits' = <<meta>>
    /\ pc' = "synth"
    /\ BeginRun("synthesis", <<>>, <<>>, 0)
    /\ LeaveBatch
    /\ UNCHANGED <<request_vars, start, total_pages, chunk_results, out_vars, returned>>

\* Lines 699 and 708: the diagnostic of a successful request before the synthesis trace;
\* hits holds the diagnostics of the batches (of the one batch, when not batching).
SuccessMessage(c, images, hits) ==
    IF BatchMode(c, images)
    THEN <<ProviderLabel(c), " batch success (ordered pages) via ">> \o Join(hits, " -> ")
    ELSE <<ProviderLabel(c), " success via ">> \o hits[1]

\* The synthesis trace is dropped.
WithSynthMetaDropped(message, synth_meta) == message

\* Lines 700-701 and 709-710
WithSynthMeta(message, synth_meta) ==
    IF Len(synth_meta) > 0 THEN message \o <<" | summary/reco:">> \o synth_meta ELSE message

\* The synthesized output taken whole, biomarkers included.
ApplySynthesisWhole(extracted_, synthesized) == DedupeNormalizedOutput(synthesized)

\* Lines 632-635: the synthesized fields replace those of the extraction.
ApplySynthesis(extracted_, synthesized) ==
    DedupeNormalizedOutput(
        [extracted_ EXCEPT !.recommendations = synthesized.recommendations,
                           !.summary = synthesized.summary,
                           !.disclaimer = synthesized.disclaimer])

\* Lines 619-643: one model of the synthesis chain is called.
SynthCall ==
    /\ pc = "synth"
    /\ pos <= Len(CurrentChain)
    /\ \E o \in Answers :
         IF Succeeds(o)
         THEN /\ returned' = [result |-> ApplySynthesis(merged, NormalizeAiOutput(o.raw)),
                              trace |-> SuccessTrace(CurrentModel, errors_local)]
              /\ NoteCall(o, TRUE)
              /\ Return(returned'.result,
                        WithSynthMeta(SuccessMessage(cfg, payload.images, model_hits),
                                      returned'.trace))
              /\ UNCHANGED chain_vars
         ELSE /\ FailOver(o)
              /\ UNCHANGED <<pc, out_vars>>
    /\ UNCHANGED <<request_vars, batch_vars, retry_vars, recon_vars, reconciled, acc_vars,
                   merged>>

\* Line 644: every synthesis model failed; the result is returned as it was.
SynthExhausted ==
    /\ pc = "synth"
    /\ pos > Len(CurrentChain)
    /\ returned' = [result |-> merged, trace |-> JoinErrors(errors_local)]
    /\ NoteExhausted
    /\ Return(merged, WithSynthMeta(SuccessMessage(cfg, payload.images, model_hits),
                                    JoinErrors(errors_local)))
    /\ UNCHANGED <<request_vars, batch_vars, retry_vars, recon_vars, reconciled, acc_vars,
                   merged, chain_vars>>

Next ==
    \/ RejectMissingKey
    \/ RejectMissingOcr
    \/ BeginBatches
    \/ BeginWhole
    \/ NextBatch
    \/ MergeBatches
    \/ ExtractCall
    \/ ExtractExhausted
    \/ RetryNext
    \/ RetryMerge
    \/ SingleCall
    \/ SingleExhausted
    \/ ReconSkip
    \/ ReconBegin
    \/ ReconCall
    \/ ReconExhausted
    \/ FinishBatch
    \/ FinishWhole
    \/ SynthCall
    \/ SynthExhausted

Spec == Init /\ [][Next]_vars

\* Lines 311-313: a call blocks its thread until the answer or the timeout, and every other
\* step is a computation of the thread itself: a request that can take a step takes one.
FairSpec == Init /\ [][Next]_vars /\ WF_vars(Next)

(* -------------------------- two request threads ------------------------ *)

\* Lines 803-805: ThreadingHTTPServer gives every connection a thread of its own, and each
\* thread runs do_POST (line 777) with its own payload and its own locals of
\* maybe_generate_with_openrouter. The variables above are those of the thread that is
\* running; service.parked holds those of the thread that is not.

\* Lines 529-714: the locals of the running thread.
ThreadLocals ==
    [payload |-> payload, pc |-> pc, start |-> start,
     images_subset |-> images_subset, page_numbers |-> page_numbers,
     total_pages |-> total_pages, normalized |-> normalized,
     model_or_error |-> model_or_error, retry_chunks |-> retry_chunks,
     retry_models |-> retry_models, extracted |-> extracted, meta |-> meta,
     reconciled |-> reconciled, chunk_results |-> chunk_results,
     model_hits |-> model_hits, merged |-> merged, pos |-> pos,
     errors_local |-> errors_local, result |-> result, diag |-> diag, runs |-> runs,
     attempts |-> attempts, returned |-> returned]

\* Line 777: the locals of a thread that has just entered maybe_generate_with_openrouter.
Fresh(p) ==
    [payload |-> p, pc |-> "start", start |-> 0, images_subset |-> <<>>,
     page_numbers |-> <<>>, total_pages |-> 0, normalized |-> None,
     model_or_error |-> <<>>, retry_chunks |-> <<>>, retry_models |-> <<>>,
     extracted |-> None, meta |-> <<>>, reconciled |-> None, chunk_results |-> <<>>,
     model_hits |-> <<>>, merged |-> None, pos |-> 1, errors_local |-> <<>>,
     result |-> None, diag |-> <<>>, runs |-> <<>>, attempts |-> <<>>,
     returned |-> [result |-> None, trace |-> <<>>]]

\* The thread goes on with the locals it had.
Resume(thread) ==
    /\ payload' = thread.payload
    /\ pc' = thread.pc
    /\ start' = thread.start
    /\ images_subset' = thread.images_subset
    /\ page_numbers' = thread.page_numbers
    /\ total_pages' = thread.total_pages
    /\ normalized' = thread.normalized
    /\ model_or_error' = thread.model_or_error
    /\ retry_chunks' = thread.retry_chunks
    /\ retry_models' = thread.retry_models
    /\ extracted' = thread.extracted
    /\ meta' = thread.meta
    /\ reconciled' = thread.reconciled
    /\ chunk_results' = thread.chunk_results
    /\ model_hits' = thread.model_hits
    /\ merged' = thread.merged
    /\ pos' = thread.pos
    /\ errors_local' = thread.errors_local
    /\ result' = thread.result
    /\ diag' = thread.diag
    /\ runs' = thread.runs
    /\ attempts' = thread.attempts
    /\ returned' = thread.returned

\* The list of failures is one object of the process, which every thread appends to.
ParkedSharingErrors == [service.parked EXCEPT !.errors_local = errors_local]

\* Lines 682-684, 547, 589, 618: every list of the pipeline is created inside the call of
\* maybe_generate_with_openrouter, so the parked thread finds its locals as it left them.
Parked == service.parked

\* The interpreter suspends the running thread and runs the other one.
Switch ==
    /\ ~service.alone
    /\ service.parked # None
    /\ service.parked.pc # "done"
    /\ Resume(Parked)
    /\ service' = [service EXCEPT !.parked = ThreadLocals]
    /\ UNCHANGED <<cfg, call>>

\* The answers a finished thread was given, run by run.
AnswersGiven == [i \in 1..Len(runs) |-> runs[i].answers]

\* Both threads have returned. The request that returned last is sent again, alone, to a
\* provider that gives the answers it gave to that request.
RunAlone ==
    /\ ~service.alone
    /\ service.parked # None
    /\ service.parked.pc = "done"
    /\ pc = "done"
    /\ service' = [service EXCEPT !.alone = TRUE,
                                  !.expect = [result |-> result, diag |-> diag],
                                  !.script = AnswersGiven]
    /\ Resume(Fresh(payload))
    /\ UNCHANGED <<cfg, call>>

\* One configuration of the process and two requests: a request of one image beside a
\* request handled whole with completeness retry, in batches, without a key, and without
\* OCR text in OCR-only mode.
TwoRequests ==
    {<<WithFlags(SoloConfig, 2, 2, TRUE, FALSE, FALSE),
       Request(2, OcrSample), Request(1, OcrSample)>>,
     <<WithFlags(SoloConfig, 1, 1, FALSE, FALSE, FALSE),
       Request(2, OcrSample), Request(1, OcrSample)>>,
     <<[SoloConfig EXCEPT !.OPENROUTER_API_KEY = ""],
       Request(1, OcrSample), Request(2, OcrSample)>>,
     <<WithFlags(SoloConfig, 2, 2, TRUE, TRUE, FALSE),
       Request(1, <<>>), Request(1, OcrSample)>>}

ConcurrentInit ==
    /\ \E s \in TwoRequests :
          /\ cfg = s[1]
          /\ payload = s[2]
          /\ service = [NotServing EXCEPT !.parked = Fresh(s[3])]
    /\ pc = "start" /\ start = 0
    /\ images_subset = <<>> /\ page_numbers = <<>> /\ total_pages = 0
    /\ normalized = None /\ model_or_error = <<>>
    /\ retry_chunks = <<>> /\ retry_models = <<>>
    /\ extracted = None /\ meta = <<>> /\ reconciled = None
    /\ chunk_results = <<>> /\ model_hits = <<>>
    /\ merged = None
    /\ pos = 1 /\ errors_local = <<>>
    /\ result = None /\ diag = <<>>
    /\ runs = <<>> /\ attempts = <<>>
    /\ returned = [result |-> None, trace |-> <<>>]
    /\ call = None

ConcurrentNext ==
    \/ Next
    \/ Switch
    \/ RunAlone

ConcurrentSpec == ConcurrentInit /\ [][ConcurrentNext]_vars

(* ------------------- the normalizer and the merger alone --------------- *)
(* _normalize_ai_output and _merge_normalized_outputs called on their own, *)
(* on raw outputs and on lists of batch results drawn from bounded sets.   *)

\* Entries per list of a drawn raw output.
MaxEntries == 2

\* Batch results per drawn merge.
MaxChunks == 3

BioBlank == Bio(JStr(<<" ">>), JStr(<<>>), JNull, JAbsent)
BioHbLong == Bio(JStr(<<"h", "b", " ">>), JStr(<<"1">>), JStr(<<"H", "i", "g", "h">>), JStr(<<"a", "b", "a">>))
BioHbTie == Bio(JStr(<<"H", "B">>), JStr(<<"1">>), JStr(<<"u", "n", "k", "n", "o", "w", "n">>), JStr(<<"b">>))
RecoAShout == Reco(JStr(<<" ", "a">>), JStr(<<"1", " ", "A">>), JStr(<<"a">>))
RecoB == Reco(JStr(<<"B">>), JNull, JAbsent)
RecoText == [Reco(JStr(<<>>), JAbsent, JStr(<<" ">>)) EXCEPT !.protocolText = JStr(<<"2">>)]

BiomarkerEntries ==
    {BioHb, BioHbShout, BioHbLong, BioHbTie, BioK, BioNa, BioB, BioBlank, NotADict}
RecommendationEntries == {RecoA, RecoAShout, RecoB, RecoText, NotADict}
Summaries == {<<>>, <<" ">>, <<"a", " ">>}
Disclaimers == {JAbsent, JNull, JStr(<<>>), JStr(<<" ">>), JStr(<<" ", "b">>)}

\* The sequences of at most n entries.
ListsOf(entries, n) == UNION {[1..k -> entries] : k \in 0..n}

\* Schema-valid raw outputs: every list of biomarker entries with every summary and
\* disclaimer, and every list of recommendation entries.
RawInputs ==
    {Raw(b, <<RecoA>>, s, d) :
        b \in ListsOf(BiomarkerEntries, MaxEntries), s \in Summaries, d \in Disclaimers}
    \cup {Raw(<<BioHb>>, r, <<"a">>, JAbsent) : r \in ListsOf(RecommendationEntries, MaxEntries)}

\* Recommendations in another order, a blank summary and a blank disclaimer.
RawRecos == Raw(<<BioK, BioHbLong>>, <<RecoB, RecoAShout>>, <<>>, JStr(<<" ">>))

\* Batch results: what the pipeline's passes return for these raw outputs.
ChunkSamples ==
    {NormalizeAiOutput(r) : r \in {RawOne, RawThree, RawFour, RawRecos}}
    \cup {MergeNormalizedOutputs(<<NormalizeAiOutput(RawOne), NormalizeAiOutput(RawThree)>>)}

ChunkLists == UNION {[1..k -> ChunkSamples] : k \in 1..MaxChunks}

\* Lines 325-328 reading a dict that _normalize_ai_output returned (lines 353-358).
AsRaw(normalized_) ==
    Raw([i \in 1..Len(normalized_.biomarkers) |->
            LET b == normalized_.biomarkers[i]
            IN  Bio(JStr(b.name), JStr(b.value), JStr(b.status), JStr(b.explanation))],
        [i \in 1..Len(normalized_.recommendations) |->
            LET r == normalized_.recommendations[i]
            IN  Reco(JStr(r.name), JStr(r.protocol), JStr(r.reason))],
        normalized_.summary, JStr(normalized_.disclaimer))

\* No request is in progress.
NoRequest ==
    /\ cfg = DefaultConfig /\ payload = Request(1, OcrSample)
    /\ pc = "idle"
    /\ start = 0
    /\ images_subset = <<>> /\ page_numbers = <<>> /\ total_pages = 0
    /\ normalized = None /\ model_or_error = <<>>
    /\ retry_chunks = <<>> /\ retry_models = <<>>
    /\ extracted = None /\ meta = <<>> /\ reconciled = None
    /\ chunk_results = <<>> /\ model_hits = <<>>
    /\ merged = None
    /\ pos = 1 /\ errors_local = <<>>
    /\ result = None /\ diag = <<>>
    /\ runs = <<>> /\ attempts = <<>>
    /\ returned = [result |-> None, trace |-> <<>>]
    /\ service = NotServing

request_locals == <<pc, start, images_subset, page_numbers, total_pages, normalized,
                    model_or_error, retry_chunks, retry_models, extracted, meta, reconciled,
                    chunk_results, model_hits, merged, pos, errors_local, result, diag, runs,
                    attempts, returned>>

FunctionInit ==
    /\ NoRequest
    /\ \/ \E raw \in RawInputs :
             call = [fn |-> "normalize", arg |-> raw, value |-> None, follow |-> None]
       \/ \E chunks \in ChunkLists :
             call = [fn |-> "merge", arg |-> chunks, value |-> None, follow |-> None]

\* _normalize_ai_output(raw)
Normalize ==
    /\ call.fn = "normalize" /\ call.value = None
    /\ call' = [call EXCEPT !.value = NormalizeAiOutput(call.arg)]
    /\ UNCHANGED <<cfg, payload, service, request_locals>>

\* _normalize_ai_output applied to the dict it returned.
NormalizeAgain ==
    /\ call.fn = "normalize" /\ call.value # None /\ call.follow = None
    /\ call' = [call EXCEPT !.follow = NormalizeAiOutput(AsRaw(call.value))]
    /\ UNCHANGED <<cfg, payload, service, request_locals>>

\* _merge_normalized_outputs(chunks)
Merge ==
    /\ call.fn = "merge" /\ call.value = None
    /\ call' = [call EXCEPT !.value = MergeNormalizedOutputs(call.arg)]
    /\ UNCHANGED <<cfg, payload, service, request_locals>>

\* Lines 630-635: the merge takes the fields of a synthesis output.
Synthesize ==
    /\ call.fn = "merge" /\ call.value # None /\ call.follow = None
    /\ \E raw \in {RawThree, RawRecos} :
          call' = [call EXCEPT !.follow = ApplySynthesis(call.value, NormalizeAiOutput(raw))]
    /\ UNCHANGED <<cfg, payload, service, request_locals>>

FunctionNext ==
    \/ Normalize
    \/ NormalizeAgain
    \/ Merge
    \/ Synthesize

FunctionSpec == FunctionInit /\ [][FunctionNext]_vars

(* ------------------------------ properties ----------------------------- *)

\* piece occurs in text as a run of consecutive pieces.
Mentions(text, piece) ==
    \E k \in 0..(Len(text) - Len(piece)) : SubSeq(text, k + 1, k + Len(piece)) = piece

\* The latest chain run is a finished run of run_model_chain_for_images.
ExtractionRunReturned ==
    /\ Len(runs) > 0
    /\ CurrentRun.pass \in {"extraction", "retry"}
    /\ ~CurrentRun.open

\* Position of the first call of the latest run whose output passed the normalizer.
FirstPassing == CHOOSE k \in 1..Len(attempts) :
                    /\ Succeeds(attempts[k].outcome)
                    /\ \A j \in 1..(k - 1) : ~Succeeds(attempts[j].outcome)

\* C1: a chain run that returns a result returns the normalized output of the first model,
\* in chain order, whose output passes the schema test, with that model's identifier;
\* the models before it were each called once, in order, and none after it is called.
C1_FirstPassingModelWins ==
    (ExtractionRunReturned /\ returned.result # None) =>
        /\ \E k \in 1..Len(attempts) : Succeeds(attempts[k].outcome)
        /\ LET k == FirstPassing
           IN  /\ \A j \in 1..k : attempts[j].model = CurrentRun.chain[j]
               /\ returned.result = NormalizeAiOutput(attempts[k].outcome.raw)
               /\ returned.trace = <<CurrentRun.chain[k]>>
               /\ Len(attempts) = k
               /\ CurrentRun.calls = k

\* C1 witness: chain [A, B, C], A fails, B succeeds, C is not called.
C1_Witness ==
    /\ ExtractionRunReturned /\ returned.result # None
    /\ Len(CurrentRun.chain) = 3
    /\ CurrentRun.calls = 2
    /\ ~Succeeds(attempts[1].outcome)
    /\ returned.trace = <<CurrentRun.chain[2]>>

\* The "{model}: {error}" entries of the calls of the latest run, in call order.
AttemptEntries ==
    [j \in 1..Len(attempts) |->
        <<attempts[j].model, ": ", ErrorText(attempts[j].outcome)>>]

\* C2: an exhausted chain run returns no result and one "{model}: {error}" entry per chain
\* position, in chain order, joined by separators; no model identifier is called twice
\* in the run.
C2_ExhaustedChainCallsEachModelOnce ==
    (ExtractionRunReturned /\ returned.result = None) =>
        /\ Len(attempts) = Len(CurrentRun.chain)
        /\ \A j \in 1..Len(attempts) : attempts[j].model = CurrentRun.chain[j]
        /\ returned.trace = Join(AttemptEntries, " | ")
        /\ \A i, j \in 1..Len(attempts) : i # j => attempts[i].model # attempts[j].model

\* C3: the trace returned with a result mentions the failure of every model tried before
\* the one that succeeded, and that model's identifier.
C3_TraceMentionsEarlierFailures ==
    (ExtractionRunReturned /\ returned.result # None) =>
        /\ Mentions(returned.trace, <<attempts[Len(attempts)].model>>)
        /\ \A j \in 1..(Len(attempts) - 1) : Mentions(returned.trace, AttemptEntries[j])

\* The runs of the whole-batch extraction chain, in the order they began.
BatchRuns == SelectSeq(runs, LAMBDA r : r.pass = "extraction")

\* Run i is a finished chain run in which every model failed.
Exhausted(i) == ~runs[i].open /\ ~runs[i].ok

\* C4: in batch mode the batches are run in page order, and once the extraction chain of a
\* batch is exhausted the request is over with no result: no chain run of a later batch
\* or of the synthesis pass follows, and nothing of the earlier batches is returned.
C4_BatchFailureIsImmediate ==
    (~cfg.AI_OCR_ONLY_MODE /\ Len(payload.images) > cfg.OPENROUTER_PAGE_BATCH_SIZE) =>
        /\ \A i \in 1..Len(runs) :
              (runs[i].pass = "extraction" /\ Exhausted(i)) =>
                  i = Len(runs) /\ pc = "done" /\ result = None
        /\ \A i, j \in 1..Len(BatchRuns) :
              i < j => \A p \in 1..Len(BatchRuns[i].page_numbers) :
                          \A q \in 1..Len(BatchRuns[j].page_numbers) :
                              BatchRuns[i].page_numbers[p] < BatchRuns[j].page_numbers[q]

\* C4 witness: the second batch fails after the first one succeeded.
C4_Witness ==
    /\ ~cfg.AI_OCR_ONLY_MODE /\ Len(payload.images) > cfg.OPENROUTER_PAGE_BATCH_SIZE
    /\ pc = "done" /\ result = None
    /\ Len(chunk_results) >= 1
    /\ Len(BatchRuns) = 2
    /\ CurrentRun.pass = "extraction" /\ Exhausted(Len(runs))

\* C5: the batches are consecutive slices of the images, each of batch-size images except
\* possibly a shorter last one, labelled with their 1-based positions and the request's
\* page count; once all are run, laid end to end they are the image sequence.
C5_BatchesAreConsecutiveSlices ==
    (~cfg.AI_OCR_ONLY_MODE /\ Len(payload.images) > cfg.OPENROUTER_PAGE_BATCH_SIZE) =>
        LET s == cfg.OPENROUTER_PAGE_BATCH_SIZE
            n == Len(payload.images)
        IN  /\ \A k \in 1..Len(BatchRuns) :
                  LET b == BatchRuns[k]
                      lo == (k - 1) * s
                      len == Len(b.images)
                  IN  /\ Len(b.page_numbers) = len
                      /\ len = s \/ (1 <= len /\ len < s /\ lo + len = n)
                      /\ \A j \in 1..len :
                            b.images[j] = payload.images[lo + j] /\ b.page_numbers[j] = lo + j
                      /\ b.total_pages = n
            /\ merged # None => ConcatField(BatchRuns, "images") = payload.images

\* C5 witness: three images in batches of two are run as [1, 2] then [3].
C5_Witness ==
    /\ Len(payload.images) = 3 /\ cfg.OPENROUTER_PAGE_BATCH_SIZE = 2
    /\ merged # None
    /\ Len(BatchRuns) = 2
    /\ BatchRuns[1].page_numbers = <<1, 2>>
    /\ BatchRuns[2].page_numbers = <<3>>

\* C6 as stated: whenever the request holds more images than the batch size, no run of the
\* extraction chain covers more pages than the batch size.
C6_NoRunAboveBatchSize ==
    Len(payload.images) > cfg.OPENROUTER_PAGE_BATCH_SIZE =>
        \A i \in 1..Len(runs) :
            runs[i].pass \in {"extraction", "retry"} =>
                /\ Len(runs[i].page_numbers) <= cfg.OPENROUTER_PAGE_BATCH_SIZE
                /\ Len(runs[i].images) <= cfg.OPENROUTER_PAGE_BATCH_SIZE

\* C6 amended: outside OCR-only mode, whenever the request holds more images than the batch
\* size, no run of the extraction chain covers more pages than the batch size.
C6_NoRunAboveBatchSizeUnlessOcrOnly ==
    (~cfg.AI_OCR_ONLY_MODE /\ Len(payload.images) > cfg.OPENROUTER_PAGE_BATCH_SIZE) =>
        \A i \in 1..Len(runs) :
            runs[i].pass \in {"extraction", "retry"} =>
                /\ Len(runs[i].page_numbers) <= cfg.OPENROUTER_PAGE_BATCH_SIZE
                /\ Len(runs[i].images) <= cfg.OPENROUTER_PAGE_BATCH_SIZE

\* C6 witness: a request one image above the batch size has its first batch run.
C6_Witness ==
    /\ ~cfg.AI_OCR_ONLY_MODE
    /\ Len(payload.images) = cfg.OPENROUTER_PAGE_BATCH_SIZE + 1
    /\ Len(runs) > 0
    /\ Len(runs[1].page_numbers) = cfg.OPENROUTER_PAGE_BATCH_SIZE

\* The whole-batch extraction has just returned a result.
ExtractionJustSucceeded ==
    /\ Len(runs) > 0
    /\ CurrentRun.pass = "extraction" /\ CurrentRun.ok
    /\ pc \in {"retry", "recon"}

\* C7: after the whole-batch extraction succeeds, the single-image retry is entered exactly
\* when the batch has two or more images and fewer biomarkers than floor x images.
C7_RetryIffBelowFloor ==
    ExtractionJustSucceeded =>
        (pc = "retry" <=>
            /\ Len(images_subset) >= 2
            /\ Len(normalized.biomarkers)
                   < cfg.OPENROUTER_MIN_BIOMARKERS_PER_IMAGE_HINT * Len(images_subset))

\* C7 witness: floor 2, two images, three biomarkers: the retry is entered.
C7_Witness ==
    /\ ExtractionJustSucceeded
    /\ cfg.OPENROUTER_MIN_BIOMARKERS_PER_IMAGE_HINT = 2
    /\ Len(images_subset) = 2
    /\ Len(normalized.biomarkers) = 3
    /\ pc = "retry"

\* C8: when a single-image run of a completeness retry fails entirely, no further
\* single-image run follows, the request goes on, and the whole-batch extraction, not
\* the single-image results obtained so far, is what reconciliation receives.
C8_FailedRetryKeepsBatchExtraction ==
    \A i \in 1..Len(runs) :
        (runs[i].pass = "retry" /\ Exhausted(i)) =>
            /\ i < Len(runs) => runs[i + 1].pass # "retry"
            /\ i = Len(runs) =>
                  /\ pc # "done"
                  /\ pc = "recon" => extracted = normalized /\ meta = model_or_error
                  /\ pc = "batch_done" /\ ReconDisabled(cfg) => reconciled = normalized

\* C8 witness: the first image was extracted alone, the second failed, a third is left.
C8_Witness ==
    /\ Len(runs) > 0 /\ CurrentRun.pass = "retry" /\ Exhausted(Len(runs))
    /\ pc = "recon"
    /\ Len(retry_chunks) = 1
    /\ Len(images_subset) = 3
    /\ retry_chunks[1] # normalized

\* C9: when every single-image run of a completeness retry succeeds, the runs after the
\* batch's extraction are one per image, in page order, each with one image and its own
\* page number, and their merged results replace the extraction handed to reconciliation.
C9_RetryMergesSingleImageRuns ==
    /\ (Len(runs) > 0 /\ CurrentRun.pass = "retry" /\ CurrentRun.ok /\ pc = "retry") =>
          /\ retry_chunks[Len(retry_chunks)] = returned.result
          /\ CurrentRun.page_numbers = <<page_numbers[Len(retry_chunks)]>>
    /\ (Len(runs) > 0 /\ CurrentRun.pass = "retry" /\ CurrentRun.ok /\ pc = "recon") =>
          LET m == Len(images_subset)
              base == Len(runs) - m
          IN  /\ base >= 1
              /\ runs[base].pass = "extraction" /\ runs[base].page_numbers = page_numbers
              /\ \A i \in 1..m :
                    /\ runs[base + i].pass = "retry" /\ runs[base + i].ok
                    /\ runs[base + i].page_numbers = <<page_numbers[i]>>
                    /\ runs[base + i].images = <<payload.images[page_numbers[i]]>>
                    /\ runs[base + i].total_pages = Len(payload.images)
              /\ Len(retry_chunks) = m
              /\ extracted = MergeNormalizedOutputs(retry_chunks)

\* C9 witness: the retry of the second batch (pages 3 and 4) succeeded on both images and
\* its merge differs from the whole-batch extraction.
C9_Witness ==
    /\ Len(runs) > 0 /\ CurrentRun.pass = "retry" /\ CurrentRun.ok /\ pc = "recon"
    /\ page_numbers = <<3, 4>>
    /\ extracted # normalized

\* C10: when every reconciliation model fails, the batch result is the extraction handed to
\* reconciliation, the request goes on, and the batch diagnostic ends with the
\* reconciliation failures, one per model in chain order; the diagnostic returned with a
\* result holds the diagnostic of every batch.
C10_ReconciliationFailureIsNotFatal ==
  /\ (pc = "done" /\ result # None) =>
        \A i \in 1..Len(model_hits) : Mentions(diag, model_hits[i])
  /\
    (Len(runs) > 0 /\ CurrentRun.pass = "reconciliation" /\ Exhausted(Len(runs))) =>
        /\ pc \in {"batch_done", "batch"}
        /\ Len(attempts) = Len(CurrentRun.chain)
        /\ pc = "batch_done" =>
              /\ reconciled = extracted /\ reconciled # None
              /\ Len(attempts) > 0 =>
                    LET tail == <<" | reconciliation:">> \o Join(AttemptEntries, " | ")
                    IN  /\ Len(meta) > Len(tail)
                        /\ SubSeq(meta, Len(meta) - Len(tail) + 1, Len(meta)) = tail
        /\ pc = "batch" =>
              /\ chunk_results[Len(chunk_results)] # None
              /\ Len(attempts) > 0 =>
                    Mentions(model_hits[Len(model_hits)],
                             <<" | reconciliation:">> \o Join(AttemptEntries, " | "))

\* C10 witness: both reconciliation models failed after a merged retry.
C10_Witness ==
    /\ Len(runs) > 0 /\ CurrentRun.pass = "reconciliation" /\ Exhausted(Len(runs))
    /\ Len(attempts) = 2
    /\ reconciled = extracted
    /\ pc = "batch_done"

\* The latest chain run is a finished reconciliation run that returned a model's output.
ReconciliationSucceeded ==
    /\ Len(runs) > 0
    /\ CurrentRun.pass = "reconciliation" /\ CurrentRun.ok
    /\ pc = "batch_done"

\* C11: when a reconciliation model returns a schema-valid output, the batch result is the
\* normalized output of the first such model in reconciliation-chain order and nothing
\* else; the models before it were each called once, in order, and none after it is called.
C11_ReconciliationReplacesExtraction ==
    ReconciliationSucceeded =>
        /\ ~ReconDisabled(cfg)
        /\ \E k \in 1..Len(attempts) : Succeeds(attempts[k].outcome)
        /\ LET k == FirstPassing
           IN  /\ \A j \in 1..k : attempts[j].model = ReconModels(cfg)[j]
               /\ reconciled = NormalizeAiOutput(attempts[k].outcome.raw)
               /\ Len(attempts) = k
               /\ CurrentRun.calls = k
        /\ \A i \in 1..Len(reconciled.biomarkers) :
              \E j \in 1..Len(attempts[Len(attempts)].outcome.raw.biomarkers) :
                  LET item == attempts[Len(attempts)].outcome.raw.biomarkers[j]
                  IN  item.isdict /\ Strip(StrGet(item.name, <<>>)) = reconciled.biomarkers[i].name

\* C11 witness: the first reconciliation model failed, the second returned an output that
\* lacks a biomarker of the extraction; the batch result lacks it too.
C11_Witness ==
    /\ ReconciliationSucceeded
    /\ Len(attempts) = 2
    /\ Len(CurrentRun.chain) = 2
    /\ \E i \in 1..Len(extracted.biomarkers) :
          \A j \in 1..Len(reconciled.biomarkers) :
              reconciled.biomarkers[j].name # extracted.biomarkers[i].name

\* The request returned a result and the latest chain run is its synthesis pass.
SynthesisReturned ==
    /\ pc = "done" /\ result # None
    /\ Len(runs) > 0 /\ CurrentRun.pass = "synthesis" /\ ~CurrentRun.open

\* C12: the biomarkers of the result returned after the synthesis pass are those of the
\* result handed to it, entry for entry and in order, whether the pass succeeded or
\* failed; when it succeeded the other three fields are those of the synthesis output.
C12_SynthesisKeepsBiomarkers ==
    SynthesisReturned =>
        /\ merged # None
        /\ result.biomarkers = merged.biomarkers
        /\ CurrentRun.ok =>
              LET synthesized == NormalizeAiOutput(attempts[Len(attempts)].outcome.raw)
              IN  /\ result.recommendations = synthesized.recommendations
                  /\ result.summary = synthesized.summary
                  /\ result.disclaimer = synthesized.disclaimer

\* C12 witness: the synthesis succeeded with an output whose biomarkers, summary and
\* recommendations differ from those of the result handed to it.
C12_Witness ==
    /\ SynthesisReturned /\ CurrentRun.ok
    /\ NormalizeAiOutput(attempts[Len(attempts)].outcome.raw).biomarkers # merged.biomarkers
    /\ result.summary # merged.summary
    /\ result.recommendations # merged.recommendations

\* C13: when every synthesis model fails, the request still returns a result, equal in
\* all four fields to the result handed to the synthesis pass, and the diagnostic ends
\* with the synthesis failures, one per model in chain order.
C13_SynthesisFailureIsNotFatal ==
    (Len(runs) > 0 /\ CurrentRun.pass = "synthesis" /\ Exhausted(Len(runs))) =>
        /\ pc = "done"
        /\ result # None
        /\ result = merged
        /\ result.biomarkers = merged.biomarkers
        /\ result.recommendations = merged.recommendations
        /\ result.summary = merged.summary
        /\ result.disclaimer = merged.disclaimer
        /\ Len(attempts) = Len(CurrentRun.chain) /\ Len(attempts) > 0
        /\ \A j \in 1..Len(attempts) : attempts[j].model = CurrentRun.chain[j]
        /\ LET tail == <<" | summary/reco:">> \o Join(AttemptEntries, " | ")
           IN  /\ Len(diag) > Len(tail)
               /\ SubSeq(diag, Len(diag) - Len(tail) + 1, Len(diag)) = tail

\* C13 witness: every synthesis model failed after a batch-mode merge.
C13_Witness ==
    /\ Len(runs) > 0 /\ CurrentRun.pass = "synthesis" /\ Exhausted(Len(runs))
    /\ pc = "done" /\ result # None
    /\ Len(chunk_results) >= 2
    /\ Len(result.biomarkers) > 0

\* text begins with prefix.
StartsWith(text, prefix) ==
    Len(text) >= Len(prefix) /\ SubSeq(text, 1, Len(prefix)) = prefix

\* "Analyzed report pages in order across k batch(es)."
PreambleText(k) == <<"Analyzed report pages in order across ">> \o Decimal(k) \o <<" batch(es).">>

\* The number of batches a request of n images is split into.
BatchCount(n, size) == (n + size - 1) \div size

\* A request processed in batches has returned a result.
BatchRequestReturned ==
    /\ pc = "done" /\ result # None
    /\ BatchMode(cfg, payload.images)

\* C16 as stated: the summary of the result of a request processed as k batches begins with
\* "Analyzed report pages in order across k batch(es).".
C16_FinalSummaryBeginsWithPreamble ==
    BatchRequestReturned =>
        StartsWith(result.summary,
                   PreambleText(BatchCount(Len(payload.images), cfg.OPENROUTER_PAGE_BATCH_SIZE)))

\* C16 amended: the summary of the result of a request processed as k batches begins with
\* "Analyzed report pages in order across k batch(es)." when every synthesis model failed;
\* when one succeeded the summary is the stripped summary of that model's output.
C16_FinalSummaryBeginsWithPreambleUnlessSynthesized ==
    BatchRequestReturned =>
        /\ Len(chunk_results) = BatchCount(Len(payload.images), cfg.OPENROUTER_PAGE_BATCH_SIZE)
        /\ CurrentRun.pass = "synthesis"
        /\ ~CurrentRun.ok =>
              StartsWith(result.summary, PreambleText(Len(chunk_results)))
        /\ CurrentRun.ok =>
              result.summary = Strip(attempts[Len(attempts)].outcome.raw.summary)

\* C16 witness: three batches, the synthesis failed, the summary names three batches.
C16_Witness ==
    /\ BatchRequestReturned
    /\ Len(chunk_results) = 3
    /\ ~CurrentRun.ok
    /\ StartsWith(result.summary, PreambleText(3))

\* summary is the preamble naming k, followed by a space and the stripped summary of the
\* last chunk that has a non-blank one, or by nothing when every chunk's summary is blank.
SummaryNames(summary, chunks, k) ==
    \/ /\ \A i \in 1..Len(chunks) : Len(Strip(chunks[i].summary)) = 0
       /\ summary = PreambleText(k)
    \/ \E j \in 1..Len(chunks) :
          /\ Len(Strip(chunks[j].summary)) > 0
          /\ \A i \in (j + 1)..Len(chunks) : Len(Strip(chunks[i].summary)) = 0
          /\ summary = PreambleText(k) \o <<" ">> \o Strip(chunks[j].summary)

\* The single-image results of a completeness retry have just been merged.
RetryMerged ==
    /\ Len(runs) > 0 /\ CurrentRun.pass = "retry" /\ CurrentRun.ok
    /\ pc = "recon"

\* The batch results have just been merged.
BatchesMerged == pc = "synth" /\ BatchMode(cfg, payload.images)

\* The number of batches the request is processed as.
RequestBatches ==
    IF BatchMode(cfg, payload.images)
    THEN BatchCount(Len(payload.images), cfg.OPENROUTER_PAGE_BATCH_SIZE) ELSE 1

\* C17 as stated: every merged summary is the preamble naming the number of batches of the
\* request, followed by the last non-blank summary among the merged results.
C17_MergedSummaryNamesRequestBatches ==
    /\ BatchesMerged => SummaryNames(merged.summary, chunk_results, RequestBatches)
    /\ RetryMerged => SummaryNames(extracted.summary, retry_chunks, RequestBatches)

\* C17 amended: every merged summary is the preamble naming the number of results merged
\* (the batches of the request for the merge of the batch results, the images of the
\* batch for the merge of a completeness retry), followed by the last non-blank summary
\* among the merged results.
C17_MergedSummaryNamesMergedResults ==
    /\ BatchesMerged =>
          /\ Len(chunk_results) = RequestBatches
          /\ SummaryNames(merged.summary, chunk_results, RequestBatches)
    /\ RetryMerged =>
          /\ Len(retry_chunks) = Len(images_subset)
          /\ SummaryNames(extracted.summary, retry_chunks, Len(images_subset))

\* C17 witness: three batch results merged, the first summary non-blank and distinct from
\* the second, the last one blank: the merged summary carries the second.
C17_Witness ==
    /\ BatchesMerged
    /\ Len(chunk_results) = 3
    /\ Len(Strip(chunk_results[1].summary)) > 0
    /\ Len(Strip(chunk_results[2].summary)) > 0
    /\ chunk_results[1].summary # chunk_results[2].summary
    /\ Len(Strip(chunk_results[3].summary)) = 0
    /\ merged.summary = PreambleText(3) \o <<" ">> \o chunk_results[2].summary

\* Case-insensitive (name, value) of a biomarker, (name, value, status), and
\* (name, protocol) of a recommendation.
Pair(item) == <<Lower(Strip(item.name)), Lower(Strip(item.value))>>
Triple(item) == <<Lower(Strip(item.name)), Lower(Strip(item.value)), Lower(Strip(item.status))>>
RecoPair(item) == <<Lower(Strip(item.name)), Lower(Strip(item.protocol))>>

\* A merge of batch results has returned.
MergeReturned == call # None /\ call.fn = "merge" /\ call.value # None

\* The entries of one field of the batch results, batch after batch, each batch in its
\* own order.
RECURSIVE Scan(_, _)
Scan(chunks, field) ==
    IF Len(chunks) = 0 THEN <<>>
    ELSE Scan(SubSeq(chunks, 1, Len(chunks) - 1), field) \o chunks[Len(chunks)][field]

ScannedBiomarkers == Scan(call.arg, "biomarkers")
ScannedRecommendations == Scan(call.arg, "recommendations")

\* C14: the merged biomarkers are as many as the distinct case-insensitive
\* (name, value, status) triples of the batch results, the first occurrence of each
\* triple being the entry kept.
C14_MergedCountIsDistinctTriples ==
    MergeReturned =>
        /\ Len(call.value.biomarkers)
              = Cardinality({Triple(ScannedBiomarkers[i]) : i \in 1..Len(ScannedBiomarkers)})
        /\ \A i \in 1..Len(ScannedBiomarkers) :
              (\A h \in 1..(i - 1) : Triple(ScannedBiomarkers[h]) # Triple(ScannedBiomarkers[i]))
                  => \E j \in 1..Len(call.value.biomarkers) :
                        call.value.biomarkers[j] = ScannedBiomarkers[i]

\* The positions of all, in increasing order, at which a key is seen for the first time.
RECURSIVE FirstSeenPositions(_, _, _)
FirstSeenPositions(all, Key(_), n) ==
    IF n = 0 THEN <<>>
    ELSE LET before == FirstSeenPositions(all, Key, n - 1)
         IN  IF \E h \in 1..(n - 1) : Key(all[h]) = Key(all[n]) THEN before
             ELSE Append(before, n)

\* C15: the merged biomarkers descend, one each and in the same order, from the scanned
\* entries whose (name, value) pair is seen for the first time, each of which is also the
\* first with its (name, value, status) triple, and keep their name and value; the merged
\* recommendations are the scanned ones whose (name, protocol) pair is seen for the first
\* time, in the same order.
C15_MergeKeepsFirstSeenOrder ==
    MergeReturned =>
        LET all == ScannedBiomarkers
            out == call.value.biomarkers
            at == FirstSeenPositions(all, Pair, Len(all))
            recos == ScannedRecommendations
            reco_at == FirstSeenPositions(recos, RecoPair, Len(recos))
        IN  /\ Len(out) = Len(at)
            /\ \A i \in 1..Len(out) :
                  /\ out[i].name = all[at[i]].name /\ out[i].value = all[at[i]].value
                  /\ \A h \in 1..(at[i] - 1) : Triple(all[h]) # Triple(all[at[i]])
            /\ call.value.recommendations = [i \in 1..Len(reco_at) |-> recos[reco_at[i]]]

\* C15 witness: the second batch result repeats a pair of the first one and adds a new
\* one; the merge lists the entries of the first, then the new one.
C15_Witness ==
    /\ MergeReturned
    /\ Len(call.arg) = 2
    /\ Len(call.arg[1].biomarkers) >= 2
    /\ Len(call.arg[2].biomarkers) >= 2
    /\ \E h \in 1..Len(call.arg[1].biomarkers) :
          Pair(call.arg[1].biomarkers[h]) = Pair(call.arg[2].biomarkers[1])
    /\ Len(call.value.biomarkers) > Len(call.arg[1].biomarkers)
    /\ Len(call.value.recommendations) >= 2

\* C18: normalizing the output of the normalizer returns it unchanged, in all four fields.
C18_NormalizerIdempotent ==
    (call # None /\ call.fn = "normalize" /\ call.follow # None) =>
        /\ call.follow.biomarkers = call.value.biomarkers
        /\ call.follow.recommendations = call.value.recommendations
        /\ call.follow.summary = call.value.summary
        /\ call.follow.disclaimer = call.value.disclaimer

\* No two entries share a case-insensitive (name, value) pair.
NoSharedPair(biomarkers) ==
    \A i, j \in 1..Len(biomarkers) : i # j => Pair(biomarkers[i]) # Pair(biomarkers[j])

\* C19: no two biomarkers of a normalizer output share a case-insensitive (name, value)
\* pair, nor do two biomarkers of a merge, of a synthesized result, of a result a chain run
\* returns, or of the result a request returns.
C19_NoSharedNameValuePair ==
    /\ (call # None /\ call.value # None) => NoSharedPair(call.value.biomarkers)
    /\ (call # None /\ call.follow # None) => NoSharedPair(call.follow.biomarkers)
    /\ returned.result # None => NoSharedPair(returned.result.biomarkers)
    /\ reconciled # None => NoSharedPair(reconciled.biomarkers)
    /\ merged # None => NoSharedPair(merged.biomarkers)
    /\ result # None => NoSharedPair(result.biomarkers)

\* C19 witness: two raw entries that differ in case and padding only were normalized into
\* one.
C19_Witness ==
    /\ call # None /\ call.fn = "normalize" /\ call.value # None
    /\ Len(call.arg.biomarkers) = 2
    /\ call.arg.biomarkers[1].isdict /\ call.arg.biomarkers[2].isdict
    /\ call.arg.biomarkers[1].name # call.arg.biomarkers[2].name
    /\ Len(call.value.biomarkers) = 1

\* C20: in a normalizer output every field of every biomarker and recommendation is a
\* non-empty text, there is one entry per object of the raw lists, and the summary and the
\* disclaimer are non-empty.
C20_NormalizedFieldsNonEmpty ==
    (call # None /\ call.fn = "normalize" /\ call.value # None) =>
        /\ \A i \in 1..Len(call.value.biomarkers) :
              LET b == call.value.biomarkers[i]
              IN  Len(b.name) > 0 /\ Len(b.value) > 0 /\ Len(b.status) > 0
                      /\ Len(b.explanation) > 0
        /\ \A i \in 1..Len(call.value.recommendations) :
              LET r == call.value.recommendations[i]
              IN  Len(r.name) > 0 /\ Len(r.protocol) > 0 /\ Len(r.reason) > 0
        /\ Len(call.value.summary) > 0
        /\ Len(call.value.disclaimer) > 0

\* The active provider has no credential.
NoCredential ==
    (IF cfg.AI_PROVIDER = "qwen" THEN cfg.QWEN_API_KEY ELSE cfg.OPENROUTER_API_KEY) = ""

\* C21: with no credential for the active provider, the request returns no result and
\* the diagnostic naming the missing credential in its first step, and no chain run is
\* begun.
C21_NoCredentialNoCall ==
    (NoCredential /\ pc # "idle") =>
        /\ pc \in {"start", "done"}
        /\ runs = <<>> /\ attempts = <<>>
        /\ pc = "done" =>
              /\ result = None
              /\ diag = <<(IF cfg.AI_PROVIDER = "qwen" THEN "Qwen" ELSE "OpenRouter"),
                          " disabled (missing ",
                          (IF cfg.AI_PROVIDER = "qwen" THEN "QWEN_API_KEY"
                                                        ELSE "OPENROUTER_API_KEY"),
                          ")">>

\* C21 witness: the provider is Qwen, only the OpenRouter credential is set, and the
\* request of several images has returned.
C21_Witness ==
    /\ NoCredential /\ pc = "done"
    /\ cfg.AI_PROVIDER = "qwen" /\ cfg.OPENROUTER_API_KEY # ""
    /\ Len(payload.images) > 1
    /\ result = None

\* The model identifiers configured for the active provider.
ActiveProviderIdentifiers ==
    IF cfg.AI_PROVIDER = "qwen"
    THEN {cfg.QWEN_PRIMARY_MODEL, cfg.QWEN_FALLBACK_MODEL, cfg.QWEN_FALLBACK_MODEL_2,
          cfg.QWEN_FALLBACK_MODEL_3}
    ELSE {cfg.OPENROUTER_PRIMARY_MODEL, cfg.OPENROUTER_FALLBACK_MODEL,
          cfg.OPENROUTER_FALLBACK_MODEL_2, cfg.OPENROUTER_FALLBACK_MODEL_3}

\* The primary model of the active provider.
ActiveProviderPrimary ==
    IF cfg.AI_PROVIDER = "qwen" THEN cfg.QWEN_PRIMARY_MODEL ELSE cfg.OPENROUTER_PRIMARY_MODEL

\* C22: the chain of every reconciliation run holds identifiers of the active provider
\* only, and the provider's primary model, when in the chain, comes after every fallback.
C22_ReconciliationChainOfActiveProvider ==
    \A i \in 1..Len(runs) :
        runs[i].pass = "reconciliation" =>
            /\ \A j \in 1..Len(runs[i].chain) : runs[i].chain[j] \in ActiveProviderIdentifiers
            /\ \A j \in 1..Len(runs[i].chain) :
                  runs[i].chain[j] = ActiveProviderPrimary => j = Len(runs[i].chain)

\* The normalizer has returned.
NormalizeReturned == call # None /\ call.fn = "normalize" /\ call.value # None

\* The entries of the raw output as normalized one by one, before the dedupe.
EntriesBeforeDedupe == MapDicts(call.arg.biomarkers, NormalizeBiomarker)
RecommendationsBeforeDedupe == MapDicts(call.arg.recommendations, NormalizeRecommendation)

\* The status is "Unknown" in any case and padding.
IsUnknown(status) == Lower(Strip(status)) = <<"u", "n", "k", "n", "o", "w", "n">>

\* C23: the dedupe keeps one biomarker per case-insensitive (name, value) pair, at the
\* place of the pair's first entry and with its name and value; its explanation is the
\* earliest of the longest explanations given with the pair, and its status is one given
\* with the pair, not "Unknown" if any of them is not; recommendations are those whose
\* (name, protocol) pair is seen for the first time, unchanged.
C23_DedupeKeepsLongestExplanationAndKnownStatus ==
    NormalizeReturned =>
        LET pre == EntriesBeforeDedupe
            out == call.value.biomarkers
            at == FirstSeenPositions(pre, Pair, Len(pre))
            recos == RecommendationsBeforeDedupe
            reco_at == FirstSeenPositions(recos, RecoPair, Len(recos))
        IN  /\ Len(out) = Len(at)
            /\ \A i \in 1..Len(out) :
                  LET group == {h \in 1..Len(pre) : Pair(pre[h]) = Pair(pre[at[i]])}
                      longest == CHOOSE h \in group :
                                    \A g \in group :
                                        \/ Len(pre[g].explanation) < Len(pre[h].explanation)
                                        \/ (Len(pre[g].explanation) = Len(pre[h].explanation)
                                               /\ h <= g)
                  IN  /\ out[i].name = pre[at[i]].name /\ out[i].value = pre[at[i]].value
                      /\ out[i].explanation = pre[longest].explanation
                      /\ \E h \in group : out[i].status = pre[h].status
                      /\ (\E h \in group : ~IsUnknown(pre[h].status)) => ~IsUnknown(out[i].status)
            /\ call.value.recommendations = [i \in 1..Len(reco_at) |-> recos[reco_at[i]]]

\* C23 witness: two entries of one pair with different explanations of the same length,
\* the first of status "unknown", the second not: the entry kept has the explanation of
\* the first and the status of the second.
C23_Witness ==
    /\ NormalizeReturned
    /\ Len(EntriesBeforeDedupe) = 2 /\ Len(call.value.biomarkers) = 1
    /\ EntriesBeforeDedupe[1].explanation # EntriesBeforeDedupe[2].explanation
    /\ Len(EntriesBeforeDedupe[1].explanation) = Len(EntriesBeforeDedupe[2].explanation)
    /\ IsUnknown(EntriesBeforeDedupe[1].status) /\ ~IsUnknown(EntriesBeforeDedupe[2].status)
    /\ call.value.biomarkers[1].explanation = EntriesBeforeDedupe[1].explanation
    /\ call.value.biomarkers[1].status = EntriesBeforeDedupe[2].status

\* The image segments of the k-th call of the chain run in progress.
AttachedImages(k) == SelectSeq(attempts[k].content, LAMBDA seg : seg.type = "image_url")

\* C24: a call carries image segments only if it is an extraction or reconciliation call
\* and image input is enabled: in OCR-only mode no call of any pass attaches an image, and
\* no synthesis call does in any mode.
C24_ImagesOnlyWithExtractionOrReconciliation ==
    \A k \in 1..Len(attempts) :
        /\ AttachedImages(k) # <<>> =>
              /\ CurrentRun.pass \in {"extraction", "retry", "reconciliation"}
              /\ ~cfg.AI_OCR_ONLY_MODE
        /\ CurrentRun.pass = "synthesis" => AttachedImages(k) = <<>>

\* C24 witness: in OCR-only mode a reconciliation call for a request of three images was
\* made, and carried none of them.
C24_Witness ==
    /\ cfg.AI_OCR_ONLY_MODE /\ Len(payload.images) = 3
    /\ runs # <<>> /\ CurrentRun.pass = "reconciliation" /\ CurrentRun.images = payload.images
    /\ attempts # <<>> /\ AttachedImages(Len(attempts)) = <<>>

\* The extraction run that opened the batch of run i.
BatchOf(i) == CHOOSE k \in 1..i : /\ runs[k].pass = "extraction"
                                  /\ \A l \in (k + 1)..i : runs[l].pass # "extraction"

\* The place of a pass in the order of the passes of a batch.
PassRank(pass) == CASE pass = "extraction" -> 1 [] pass = "retry" -> 2
                    [] pass = "reconciliation" -> 3 [] OTHER -> 4

\* The runs of the batch opened by extraction run b.
RunsOfBatch(b) == {i \in b..Len(runs) : runs[i].pass # "synthesis" /\ BatchOf(i) = b}

\* The request left the batch opened by extraction run b behind it.
BatchLeft(b) == \E j \in (b + 1)..Len(runs) : runs[j].pass \in {"extraction", "synthesis"}

\* The settings under which reconciliation calls are made.
ReconciliationOn == cfg.OPENROUTER_ENABLE_RECONCILIATION /\ ~cfg.AI_VISUAL_ONLY_MODE

\* C25: the chain runs of a request follow one another, none beginning before the one
\* before it is over, in the order extraction, completeness retry, reconciliation within
\* each batch; a batch whose extraction failed is the last; a batch left behind had its one
\* reconciliation run (none when reconciliation is off) after all its extraction and retry
\* runs; the one synthesis run is the last run, begun after every page was extracted and the
\* batches merged, and a request returning null made none.
C25_PassesRunInOrder ==
    /\ \A i \in 1..(Len(runs) - 1) : ~runs[i].open
    /\ \A i \in 1..Len(runs) :
          IF runs[i].pass = "synthesis"
          THEN /\ i = Len(runs) /\ i > 1
               /\ merged # None
               /\ UNION {{runs[b].page_numbers[k] : k \in 1..Len(runs[b].page_numbers)} :
                            b \in {b \in 1..i : runs[b].pass = "extraction"}}
                     = 1..Len(payload.images)
          ELSE /\ runs[1].pass = "extraction"
               /\ \A j \in RunsOfBatch(BatchOf(i)) :
                     i < j => PassRank(runs[i].pass) <= PassRank(runs[j].pass)
               /\ runs[i].pass # "extraction" => runs[BatchOf(i)].ok
               /\ runs[i].pass = "reconciliation" => ReconciliationOn
    /\ \A b \in 1..Len(runs) :
          runs[b].pass = "extraction" =>
              LET recons == {i \in RunsOfBatch(b) : runs[i].pass = "reconciliation"}
              IN  /\ Cardinality(recons) <= 1
                  /\ (~runs[b].open /\ ~runs[b].ok) => Len(runs) = b
                  /\ BatchLeft(b) =>
                        /\ runs[b].ok
                        /\ Cardinality(recons) = (IF ReconciliationOn THEN 1 ELSE 0)
    /\ pc = "done" =>
          LET synths == {i \in 1..Len(runs) : runs[i].pass = "synthesis"}
          IN  Cardinality(synths) = (IF result = None THEN 0 ELSE 1)

\* C25 witness: a request of two batches returned a result after a completeness retry, two
\* reconciliation runs and the synthesis run.
C25_Witness ==
    /\ pc = "done" /\ result # None
    /\ Cardinality({i \in 1..Len(runs) : runs[i].pass = "extraction"}) = 2
    /\ Cardinality({i \in 1..Len(runs) : runs[i].pass = "reconciliation"}) = 2
    /\ \E i \in 1..Len(runs) : runs[i].pass = "retry"
    /\ runs[Len(runs)].pass = "synthesis"

\* The image labels of the k-th call of the chain run in progress.
ImageLabels(k) ==
    SelectSeq(attempts[k].content,
              LAMBDA seg : seg.type = "text" /\ seg.text.kind = "label")

\* The raw pages of the stitched group supplied for the image at a position of the request.
GroupOfImage(position) ==
    IF position <= Len(payload.stitchedPageGroups)
    THEN {v \in {payload.stitchedPageGroups[position][j] :
                    j \in 1..Len(payload.stitchedPageGroups[position])} : v > 0}
    ELSE {}

\* C27: the raw pages named by the label of an image in an extraction call, of a batch or
\* of a single-image retry, are those of the stitched group supplied for the position of
\* that image in the request.
C27_LabelNamesGroupOfImagePosition ==
    (runs # <<>> /\ CurrentRun.pass \in {"extraction", "retry"}) =>
        \A k \in 1..Len(attempts) :
            \A j \in 1..Len(ImageLabels(k)) :
                LET label == ImageLabels(k)[j].text
                IN  {label.covers[h] : h \in 1..Len(label.covers)} = GroupOfImage(label.group)

\* The pages of which the request supplies a text that is not blank.
SuppliedPages ==
    {payload.reportTextByPage[i].page : i \in
        {i \in 1..Len(payload.reportTextByPage) :
            /\ payload.reportTextByPage[i].page > 0
            /\ \E j \in 1..Len(payload.reportTextByPage[i].text) :
                  payload.reportTextByPage[i].text[j] # " "}}

\* The text supplied for a page, without its padding.
SuppliedText(page) ==
    LET i == CHOOSE i \in 1..Len(payload.reportTextByPage) :
                 payload.reportTextByPage[i].page = page
    IN  SelectSeq(payload.reportTextByPage[i].text, LAMBDA glyph : glyph # " ")

\* The raw pages covered by the images of a chain run: those of their stitched groups when
\* the request has groups, else their own page numbers.
CoveredPages(run) ==
    LET positions == {run.page_numbers[i] : i \in 1..Len(run.page_numbers)}
    IN  IF payload.stitchedPageGroups # <<>> THEN UNION {GroupOfImage(n) : n \in positions}
        ELSE positions

\* The OCR text in the prompt of the k-th call of the chain run in progress.
OcrTextSent(k) == attempts[k].content[1].text.ocr

\* The text is made of one part per page of the set and of nothing else: each part is the
\* page's mark followed by the text supplied for it, and the parts are in ascending order
\* of their pages.
IsTextOfPages(text, pages) ==
    LET marks == {i \in 1..Len(text) : text[i] = "[Page "}
        part(k) == <<"[Page ">> \o Decimal(k) \o <<"]\n">> \o SuppliedText(k)
        at(i) == CHOOSE k \in pages : SubSeq(text, i, i + Len(part(k)) - 1) = part(k)
    IN  /\ Cardinality(marks) = Cardinality(pages)
        /\ \A i \in marks : \E k \in pages : SubSeq(text, i, i + Len(part(k)) - 1) = part(k)
        /\ \A i, j \in marks : i < j =>
              /\ at(i) < at(j)
              /\ (\A h \in marks : ~(i < h /\ h < j)) =>
                    (j = i + Len(part(at(i))) + 1 /\ text[j - 1] = "\n\n")
        /\ \A i \in marks : (\A h \in marks : h <= i) => Len(text) = i + Len(part(at(i))) - 1
        /\ 1 \in marks

CallsBounded ==
    /\ \A i \in 1..Len(runs) : runs[i].calls <= Len(runs[i].chain)
    /\ runs # <<>> =>
          /\ Len(attempts) = CurrentRun.calls
          /\ \A j \in 1..Len(attempts) : attempts[j].model = CurrentChain[j]
          /\ \A j \in 1..(Len(attempts) - 1) : ~Succeeds(attempts[j].outcome)
    /\ \A b \in 1..Len(runs) :
          runs[b].pass = "extraction" =>
              LET retries == {i \in RunsOfBatch(b) : runs[i].pass = "retry"}
              IN  /\ Cardinality(retries) <= Len(runs[b].images)
                  /\ \A i, j \in retries : i # j => runs[i].images # runs[j].images
                  /\ Cardinality({i \in RunsOfBatch(b) : runs[i].pass = "reconciliation"}) <= 1
                  /\ \A c \in 1..Len(runs) :
                        (c # b /\ runs[c].pass = "extraction") =>
                            \A h \in 1..Len(runs[b].images), k \in 1..Len(runs[c].images) :
                                runs[b].images[h] # runs[c].images[k]
    /\ Cardinality({i \in 1..Len(runs) : runs[i].pass = "synthesis"}) <= 1

\* C29: when every call returns or times out, every request returns, a result or null,
\* after a bounded number of calls; a model that failed or timed out is not called again
\* in its chain run.
C29_EveryRequestReturns == <>(pc = "done") /\ []CallsBounded

\* C29 witness: every model of the extraction chain of a request timed out, and the
\* request returned null after one call of each.
C29_Witness ==
    /\ pc = "done" /\ result = None
    /\ Len(runs) = 1 /\ runs[1].calls = 3 /\ Len(runs[1].chain) = 3
    /\ \A j \in 1..Len(attempts) : attempts[j].outcome = OtherError

\* The answers of a request are being given again to the same request alone.
Alone == service.alone

\* The thread waits for the answer to a call.
AtCall == pc \in {"extract", "single", "recon_loop", "synth"} /\ pos <= Len(CurrentChain)

\* C26: under every interleaving of the steps of two request threads, a request returns the
\* result and the diagnostic it returns when it is run alone against the same answers of
\* the provider, and run alone it makes the same calls, so every answer is used again.
C26_RequestOwnsItsPipelineState ==
    Alone =>
        /\ pc = "done" => /\ result = service.expect.result
                          /\ diag = service.expect.diag
                          /\ AnswersGiven = service.script
        /\ AtCall => Answers # {} /\ Answers \subseteq Outcomes(CurrentRun.pass)

\* Both threads have run, the other one met a failure, and the request sent again alone
\* has returned a result after more than one chain run.
C26_Witness ==
    /\ Alone /\ pc = "done"
    /\ Len(service.script) > 1
    /\ service.parked.runs # <<>>
    /\ service.parked.errors_local # <<>>
    /\ result # None


=============================================================================
